---- MODULE Spec2Model ----
(***************************************************************************)
(* Feature engineering (src/src/data/etl.py) and rule scoring              *)
(* (src/src/fraud/rules.py) of the fraud detection pipeline.               *)
(*                                                                         *)
(* Representation.                                                         *)
(*  - A data frame or a database table is a sequence of records, one per   *)
(*    row, in row order.                                                   *)
(*  - A string the code slices (procedure_code, diagnosis_code, the joined *)
(*    rules_triggered) is a sequence of atoms: every maximal run of        *)
(*    letters is one atom ("CARD", "HEART"), every digit, underscore,      *)
(*    comma and blank is an atom of its own.  Two such sequences are equal *)
(*    exactly when the strings are.                                        *)
(*  - claim_amount is held in units of 100 dollars, so that the sums of    *)
(*    squares of the standard deviation stay inside TLC's integers.        *)
(*  - A mean is the pair (sum, count).  A standard deviation and a z-score *)
(*    are held by their squares as fractions num/den, a z-score with its   *)
(*    sign; kind tells a number from NaN and from an infinity.  The        *)
(*    arithmetic is exact (no floating point rounding).                    *)
(*  - patient_id, provider_id, claim_id are numbers; claim_date is a day   *)
(*    number.                                                              *)
(*  - The database file is the tables claims_table and fraud_flags;        *)
(*    flags_exists tells a fraud_flags table without rows from no table.   *)
(*    The claims table is never written without rows, so an empty          *)
(*    claims_table stands for no table.                                    *)
(*  - out is what the run printed (its success and error lines), raised    *)
(*    the exception that ended it, stage the position of                   *)
(*    setup_data_pipeline.main, observed what a reader of fraud_flags last *)
(*    saw, runs the number of completed run_all_rules executions.          *)
(*    store_error names the function in which the database was found      *)
(*    unavailable.  pc is the position of the process: "main" while        *)
(*    control is in setup_data_pipeline.main itself, "embedded" once the   *)
(*    documents of the vector store were built.                            *)
(*  - providers_table and patients_table are the two summary tables        *)
(*    FraudETL.load writes next to claims.                                 *)
(*  - documents and metadata are the parallel lists of the vector store    *)
(*    (src/src/rag/embeddings.py, src/src/rag/vector_store.py); the        *)
(*    embedding of a query is held by its distance to every document.      *)
(*    search_results is what FraudVectorStore.search last returned, with   *)
(*    the arguments of that call.                                          *)
(***************************************************************************)
EXTENDS Integers, Sequences, FiniteSets, TLC

VARIABLES csv, df, claims_table, det_df, fraud_flags, pc,
          results_df, summary, flags_exists, runs, observed, raised, out,
          stage, store_error, providers_table, patients_table, documents,
          metadata, search_results

vars ==
    <<csv, df, claims_table, det_df, fraud_flags, pc, results_df, summary,
      flags_exists, runs, observed, raised, out, stage, store_error,
      providers_table, patients_table, documents, metadata,
      search_results>>

(***************************************************************************)
(* Bounds of the model.                                                    *)
(***************************************************************************)
MaxVelocityClaims == 6

MaxDupClaims == 4

MaxSurgeryClaims == 3

MaxAmountClaims == 3

MaxDiagTokens == 3

MaxProcDigits == 2

MaxStoreClaims == 2

MaxRuns == 2

MaxSummaryRows == 3

MaxStoreDocs == 3

MaxK == 2

(***************************************************************************)
(* Generic helpers.                                                        *)
(***************************************************************************)
Min(a, b) == IF a <= b THEN a ELSE b

Front(s) == SubSeq(s, 1, Len(s) - 1)

Last(s) == s[Len(s)]

RECURSIVE SumOver(_, _)
SumOver(S, f) ==
    IF S = {} THEN 0
    ELSE LET x == CHOOSE y \in S : TRUE IN f[x] + SumOver(S \ {x}, f)

\* Python str.split(sep) for a one-character separator: always at least one
\* part, empty parts kept.
RECURSIVE split(_, _)
split(s, sep) ==
    IF s = <<>> THEN << <<>> >>
    ELSE LET rest == split(Tail(s), sep) IN
         IF Head(s) = sep THEN << <<>> >> \o rest
         ELSE << <<Head(s)>> \o Head(rest) >> \o Tail(rest)

\* Python sep.join(parts); sep is itself a string (a sequence of atoms).
RECURSIVE join(_, _)
join(parts, sep) ==
    IF parts = <<>> THEN <<>>
    ELSE IF Len(parts) = 1 THEN parts[1]
    ELSE parts[1] \o sep \o join(Tail(parts), sep)

\* parts[:n]
take(parts, n) == SubSeq(parts, 1, Min(n, Len(parts)))

(***************************************************************************)
(* Codes.                                                                  *)
(***************************************************************************)
Code(prefix, digits) == <<prefix>> \o digits

D(family) == <<"D", "_", family>>

D001 == <<"0", "0", "1">>

D002 == <<"0", "0", "2">>

D003 == <<"0", "0", "3">>

D004 == <<"0", "0", "4">>

surgery_codes ==
    { Code("SURG", D001), Code("SURG", D002), Code("SURG", D003),
      Code("SURG", D004), Code("CARD", D003), Code("ORTH", D003),
      Code("ONC", D002) }

valid_combos ==
    (D("HEART") :> {<<"CARD">>}) @@ (D("CARDIAC") :> {<<"CARD">>}) @@
    (D("VASCULAR") :> {<<"CARD">>}) @@
    (D("CANCER") :> {<<"ONC">>}) @@ (D("TUMOR") :> {<<"ONC">>}) @@
    (D("LEUKEMIA") :> {<<"ONC">>}) @@ (D("LYMPHOMA") :> {<<"ONC">>}) @@
    (D("CHILD") :> {<<"PED">>}) @@ (D("INFANT") :> {<<"PED">>}) @@
    (D("FEVER") :> {<<"PED">>, <<"GP">>}) @@
    (D("ALLERGY") :> {<<"PED">>, <<"GP">>}) @@
    (D("BONE") :> {<<"ORTH">>}) @@ (D("JOINT") :> {<<"ORTH">>}) @@
    (D("FRACTURE") :> {<<"ORTH">>}) @@ (D("SPRAIN") :> {<<"ORTH">>}) @@
    (D("ROUTINE") :> {<<"GP">>}) @@ (D("CHECKUP") :> {<<"GP">>}) @@
    (D("FLU") :> {<<"GP">>, <<"ER">>}) @@ (D("COMMON") :> {<<"GP">>}) @@
    (D("ACCIDENT") :> {<<"ER">>, <<"ORTH">>}) @@
    (D("TRAUMA") :> {<<"ER">>, <<"SURG">>}) @@
    (D("URGENT") :> {<<"ER">>}) @@
    (D("CRITICAL") :> {<<"ER">>, <<"SURG">>}) @@
    (D("SURGICAL") :> {<<"SURG">>}) @@ (D("OPERATION") :> {<<"SURG">>}) @@
    (D("PROCEDURE") :> {<<"SURG">>}) @@ (D("INVASIVE") :> {<<"SURG">>}) @@
    (D("XRAY") :> {<<"RAD">>}) @@ (D("SCAN") :> {<<"RAD">>}) @@
    (D("IMAGING") :> {<<"RAD">>}) @@ (D("MRI") :> {<<"RAD">>})

\* '_'.join(diagnosis.split('_')[:2])
diag_prefix(diagnosis) == join(take(split(diagnosis, "_"), 2), <<"_">>)

\* procedure.split('0')[0]
proc_prefix(procedure) == split(procedure, "0")[1]

\* detect_code_mismatch flagging every diagnosis prefix outside the table
detect_code_mismatch_strict(row) ==
    LET dp == diag_prefix(row.diagnosis_code)
        pp == proc_prefix(row.procedure_code)
    IN IF dp \in DOMAIN valid_combos
       THEN ~(pp \in valid_combos[dp])
       ELSE TRUE

\* One iteration of the loop of _detect_code_mismatches: the value appended
\* to mismatches for the row.
detect_code_mismatch(row) ==
    LET dp == diag_prefix(row.diagnosis_code)
        pp == proc_prefix(row.procedure_code)
    IN IF dp \in DOMAIN valid_combos
       THEN ~(pp \in valid_combos[dp])
       ELSE FALSE

(***************************************************************************)
(* FraudETLPipeline.transform, column by column.                           *)
(***************************************************************************)
GroupOf(d, col, i) == {j \in DOMAIN d : d[j][col] = d[i][col]}

AmountSum(d, S) == SumOver(S, [j \in DOMAIN d |-> d[j].claim_amount])

AmountSqSum(d, S) ==
    SumOver(S, [j \in DOMAIN d |-> d[j].claim_amount * d[j].claim_amount])

\* groupby(col)['claim_amount'].agg('mean'), merged back on col
group_mean(d, col, i) ==
    LET S == GroupOf(d, col, i)
    IN [sum |-> AmountSum(d, S), count |-> Cardinality(S)]

\* groupby('provider_id')['claim_amount'].agg('count'), merged back
provider_total_claims(d, i) == Cardinality(GroupOf(d, "provider_id", i))

\* groupby('provider_specialty')['claim_amount'].agg('std'): the sample
\* standard deviation (ddof = 1), NaN for a group of one.  Held by its
\* square (n*sum(x^2) - (sum x)^2) / (n*(n-1)).
specialty_std(d, i) ==
    LET S == GroupOf(d, "provider_specialty", i)
        n == Cardinality(S)
        s == AmountSum(d, S)
    IN IF n < 2
       THEN [kind |-> "nan", num |-> 0, den |-> 1]
       ELSE [kind |-> "num", num |-> n * AmountSqSum(d, S) - s * s,
             den |-> n * (n - 1)]

Sign(x) == IF x > 0 THEN 1 ELSE IF x < 0 THEN -1 ELSE 0

Zero == [kind |-> "num", sgn |-> 0, num |-> 0, den |-> 1]

NaN == [kind |-> "nan", sgn |-> 0, num |-> 0, den |-> 1]

\* (claim_amount - specialty_avg_amount) / specialty_std_amount in IEEE
\* arithmetic: x/NaN = NaN, 0/0 = NaN, x/0 = +-inf for x # 0.  With
\* mean = s/n and std^2 = v/(n(n-1)) the square of the quotient is
\* (n*x - s)^2 * (n-1) / (n*v).
zscore_raw(amount, mean, std) ==
    LET dev == mean.count * amount - mean.sum
    IN IF std.kind = "nan" THEN NaN
       ELSE IF std.num = 0
            THEN IF dev = 0 THEN NaN
                 ELSE [kind |-> "inf", sgn |-> Sign(dev), num |-> 1, den |-> 0]
       ELSE [kind |-> "num", sgn |-> Sign(dev),
             num |-> dev * dev * (mean.count - 1),
             den |-> mean.count * std.num]

\* fillna0 left out
fillna0_missing(z) == z

\* Series.fillna(0)
fillna0(z) == IF z.kind = "nan" THEN Zero ELSE z

amount_zscore(d, i) ==
    fillna0(zscore_raw(d[i].claim_amount,
                       group_mean(d, "provider_specialty", i),
                       specialty_std(d, i)))

\* is_provider_outlier with 3 for the factor 2
is_provider_outlier_3x(pavg, savg) ==
    pavg.sum * savg.count > 3 * savg.sum * pavg.count

\* provider_avg_amount > specialty_avg_amount * 2, on the fractions
is_provider_outlier(pavg, savg) ==
    pavg.sum * savg.count > 2 * savg.sum * pavg.count

\* sort_values(['patient_id', 'claim_date']): a stable sort on two keys
SortKeyLE(a, b) ==
    \/ a.patient_id < b.patient_id
    \/ a.patient_id = b.patient_id /\ a.claim_date <= b.claim_date

RECURSIVE InsertSorted(_, _)
InsertSorted(s, r) ==
    IF s = <<>> THEN <<r>>
    ELSE IF SortKeyLE(Last(s), r) THEN Append(s, r)
    ELSE Append(InsertSorted(Front(s), r), Last(s))

RECURSIVE sort_values(_)
sort_values(d) ==
    IF d = <<>> THEN <<>>
    ELSE InsertSorted(sort_values(Front(d)), Last(d))

\* patient_claims with the window open at its start: date - days excluded
patient_claims_open(d, i, days) ==
    Cardinality({j \in DOMAIN d :
                    /\ d[j].patient_id = d[i].patient_id
                    /\ d[j].claim_date > d[i].claim_date - days
                    /\ d[j].claim_date <= d[i].claim_date})

\* patient_claims as a rolling count over the sorted frame: the rows of the
\* window up to the row itself
patient_claims_rolling(d, i, days) ==
    Cardinality({j \in DOMAIN d :
                    /\ j <= i
                    /\ d[j].patient_id = d[i].patient_id
                    /\ d[j].claim_date >= d[i].claim_date - days
                    /\ d[j].claim_date <= d[i].claim_date})

\* The lambda of lines 57-62 (days = 7) and 65-70 (days = 30): the rows of
\* the row's patient dated in [date - days, date].
patient_claims(d, i, days) ==
    Cardinality({j \in DOMAIN d :
                    /\ d[j].patient_id = d[i].patient_id
                    /\ d[j].claim_date >= d[i].claim_date - days
                    /\ d[j].claim_date <= d[i].claim_date})

\* groupby(['patient_id', 'claim_date']).size(), merged back
same_day_claim_count(d, i) ==
    Cardinality({j \in DOMAIN d :
                    /\ d[j].patient_id = d[i].patient_id
                    /\ d[j].claim_date = d[i].claim_date})

\* duplicate_count grouped by claim_id and patient_id
duplicate_count_per_patient(d, i) ==
    Cardinality({j \in DOMAIN d :
                    /\ d[j].claim_id = d[i].claim_id
                    /\ d[j].patient_id = d[i].patient_id})

\* groupby('claim_id').size(), merged back
duplicate_count(d, i) == Cardinality(GroupOf(d, "claim_id", i))

\* claim_amount > 50000, in units of 100 dollars
HighAmountThreshold == 500

is_high_amount(amount) == amount > HighAmountThreshold

is_surgery(procedure) == procedure \in surgery_codes

\* same_day_surgeries ignoring the same-day count
same_day_surgeries_any(count, surgery) == count >= 1 /\ surgery

\* the lambda of lines 104-107
same_day_surgeries(count, surgery) == count > 1 /\ surgery

\* groupby('patient_id').apply(f) with f returning a Series: when the frame
\* holds a single patient the per-group Series all carry one index and pandas
\* stacks them into a one-row DataFrame; assigning that to one column raises
\* ValueError as soon as it has more than one column (two rows or more).
\* Over a frame without rows there is no group, f is never called and apply
\* returns a DataFrame without rows that has every column of the frame: the
\* assignment raises ValueError as well.
apply_raises(d) ==
    \/ d = <<>>
    \/ /\ Cardinality({d[i].patient_id : i \in DOMAIN d}) = 1
       /\ Len(d) >= 2

\* The enriched row of row i of the sorted frame s.
enrich(s, i) ==
    LET r == s[i]
        pavg == group_mean(s, "provider_id", i)
        savg == group_mean(s, "provider_specialty", i)
        sdc == same_day_claim_count(s, i)
        dup == duplicate_count(s, i)
        surg == is_surgery(r.procedure_code)
    IN [claim_id |-> r.claim_id,
        patient_id |-> r.patient_id,
        provider_id |-> r.provider_id,
        provider_specialty |-> r.provider_specialty,
        procedure_code |-> r.procedure_code,
        diagnosis_code |-> r.diagnosis_code,
        claim_amount |-> r.claim_amount,
        claim_date |-> r.claim_date,
        status |-> r.status,
        is_fraud |-> r.is_fraud,
        provider_avg_amount |-> pavg,
        provider_total_claims |-> provider_total_claims(s, i),
        specialty_avg_amount |-> savg,
        specialty_std_amount |-> specialty_std(s, i),
        amount_zscore |-> amount_zscore(s, i),
        is_provider_outlier |-> is_provider_outlier(pavg, savg),
        patient_claims_7d |-> patient_claims(s, i, 7),
        patient_claims_30d |-> patient_claims(s, i, 30),
        same_day_claim_count |-> sdc,
        is_code_mismatch |-> detect_code_mismatch(r),
        duplicate_count |-> dup,
        is_duplicate |-> dup > 1,
        is_high_amount |-> is_high_amount(r.claim_amount),
        is_surgery |-> surg,
        same_day_surgeries |-> same_day_surgeries(sdc, surg)]

\* transform with drop_duplicates('claim_id') before the features
transform_drop_duplicates(d) ==
    LET first == {i \in DOMAIN d :
                     \A j \in 1..(i - 1) : d[j].claim_id # d[i].claim_id}
        keep == SelectSeq([i \in DOMAIN d |-> i], LAMBDA i : i \in first)
        s == sort_values([k \in DOMAIN keep |-> d[keep[k]]])
    IN [i \in DOMAIN s |-> enrich(s, i)]

transform(d) ==
    LET s == sort_values(d) IN [i \in DOMAIN s |-> enrich(s, i)]

(***************************************************************************)
(* FraudDetector: the six rules.  Each returns (is_fraud, explanation); an *)
(* explanation is the sequence of the f-string's texts and of its values   *)
(* as text (a code is spliced in as it is, a number is written out).       *)
(***************************************************************************)
NoFraud == [is_fraud |-> FALSE, explanation |-> <<>>]

Fraud(e) == [is_fraud |-> TRUE, explanation |-> e]

rule_duplicate_claims(row) ==
    IF row.duplicate_count > 1
    THEN Fraud(<<"Duplicate claim: ", ToString(row.claim_id), " appears ",
                 ToString(row.duplicate_count), " times">>)
    ELSE NoFraud

\* abs(z) > 3; every comparison with NaN is false
abs_gt_3(z) ==
    \/ z.kind = "inf"
    \/ z.kind = "num" /\ z.num > 9 * z.den

rule_amount_anomaly(row) ==
    IF abs_gt_3(row.amount_zscore)
    THEN Fraud(<<"Amount $", ToString(row.claim_amount), " is ",
                 ToString(row.amount_zscore), "s from specialty average">>)
    ELSE IF row.is_high_amount
    THEN Fraud(<<"Abnormally high amount: $", ToString(row.claim_amount)>>)
    ELSE NoFraud

rule_code_mismatch(row) ==
    IF row.is_code_mismatch
    THEN Fraud(<<"Procedure ">> \o row.procedure_code
                   \o <<" doesn't match diagnosis ">> \o row.diagnosis_code)
    ELSE NoFraud

\* rule_velocity_fraud with > for >= in the 7-day test
rule_velocity_fraud_strict(row) ==
    IF row.patient_claims_7d > 5
    THEN Fraud(<<"Patient has ", ToString(row.patient_claims_7d),
                 " claims in past 7 days">>)
    ELSE IF row.patient_claims_30d >= 10
    THEN Fraud(<<"Patient has ", ToString(row.patient_claims_30d),
                 " claims in past 30 days">>)
    ELSE NoFraud

rule_velocity_fraud(row) ==
    IF row.patient_claims_7d >= 5
    THEN Fraud(<<"Patient has ", ToString(row.patient_claims_7d),
                 " claims in past 7 days">>)
    ELSE IF row.patient_claims_30d >= 10
    THEN Fraud(<<"Patient has ", ToString(row.patient_claims_30d),
                 " claims in past 30 days">>)
    ELSE NoFraud

rule_provider_outlier(row) ==
    IF row.is_provider_outlier
    THEN Fraud(<<"Provider bills $", ToString(row.provider_avg_amount),
                 " avg ($", ToString(row.specialty_avg_amount),
                 " specialty avg)">>)
    ELSE NoFraud

\* rule_impossible_scenario without its surgical-velocity branch
rule_impossible_scenario_same_day(row) ==
    IF row.same_day_surgeries
    THEN Fraud(<<"Patient has ", ToString(row.same_day_claim_count),
                 " surgeries on same day">>)
    ELSE NoFraud

rule_impossible_scenario(row) ==
    IF row.same_day_surgeries
    THEN Fraud(<<"Patient has ", ToString(row.same_day_claim_count),
                 " surgeries on same day">>)
    ELSE IF row.is_surgery /\ row.patient_claims_7d >= 3
    THEN Fraud(<<"Patient has ", ToString(row.patient_claims_7d),
                 " surgical claims in 7 days">>)
    ELSE NoFraud

\* apply_rule with the weight assigned to the score, not added to it
apply_rule_assign(acc, result, label, weight) ==
    IF result.is_fraud
    THEN [fraud_flags |-> Append(acc.fraud_flags, <<label>>),
          fraud_score |-> weight,
          explanations |-> Append(acc.explanations, result.explanation)]
    ELSE acc

\* apply_rule without explanations.append(explanation)
apply_rule_flag_only(acc, result, label, weight) ==
    IF result.is_fraud
    THEN [fraud_flags |-> Append(acc.fraud_flags, <<label>>),
          fraud_score |-> acc.fraud_score + weight,
          explanations |-> acc.explanations]
    ELSE acc

\* One "if is_fraud:" block of the loop body: the flag, the weight and the
\* explanation are appended to the three accumulators.
apply_rule(acc, result, label, weight) ==
    IF result.is_fraud
    THEN [fraud_flags |-> Append(acc.fraud_flags, <<label>>),
          fraud_score |-> acc.fraud_score + weight,
          explanations |-> Append(acc.explanations, result.explanation)]
    ELSE acc

\* cap_score without the cap
cap_score_none(score) == score

\* min(fraud_score, 100)
cap_score(score) == Min(score, 100)

\* The locals fraud_flags, fraud_score and explanations before the first
\* iteration: not yet bound, held as their empty values
Unbound == [fraud_flags |-> <<>>, fraud_score |-> 0, explanations |-> <<>>]

\* The three locals bound once before the loop: an iteration starts from
\* what the one before it left
fresh_accumulators_carried(previous) == previous

\* Lines 35-37, at the top of every iteration: the three locals are bound
\* anew, whatever the iteration before left in them
fresh_accumulators(previous) ==
    [fraud_flags |-> <<>>, fraud_score |-> 0, explanations |-> <<>>]

\* One iteration of the loop of run_all_rules, entered with the locals as
\* the iteration before left them: the dict appended to results, and the
\* locals as this iteration leaves them (fraud_score capped, line 82).
evaluate_from(previous, row) ==
    LET a0 == fresh_accumulators(previous)
        a1 == apply_rule(a0, rule_duplicate_claims(row), "DUPLICATE", 20)
        a2 == apply_rule(a1, rule_amount_anomaly(row), "AMOUNT_ANOMALY", 25)
        a3 == apply_rule(a2, rule_code_mismatch(row), "CODE_MISMATCH", 15)
        a4 == apply_rule(a3, rule_velocity_fraud(row), "VELOCITY_FRAUD", 20)
        a5 == apply_rule(a4, rule_provider_outlier(row), "PROVIDER_OUTLIER", 15)
        a6 == apply_rule(a5, rule_impossible_scenario(row),
                         "IMPOSSIBLE_SCENARIO", 30)
    IN [locals |-> [a6 EXCEPT !.fraud_score = cap_score(a6.fraud_score)],
        result |->
           [claim_id |-> row.claim_id,
            fraud_detected |-> Len(a6.fraud_flags) > 0,
            fraud_score |-> cap_score(a6.fraud_score),
            rules_triggered |-> IF a6.fraud_flags # <<>>
                                THEN join(a6.fraud_flags, <<",", " ">>)
                                ELSE <<"NONE">>,
            explanation |-> IF a6.explanations # <<>>
                            THEN join(a6.explanations, <<" | ">>)
                            ELSE <<"No fraud detected">>,
            actual_fraud |-> row.is_fraud]]

\* The body of the loop of run_all_rules for one row: the dict appended to
\* results.
evaluate_row(row) == evaluate_from(Unbound, row).result

\* run_all_rules keeping its results in a dict keyed by claim_id: one row
\* for each distinct claim_id
run_rules_by_claim_id(d) ==
    LET first == {i \in DOMAIN d :
                     \A j \in 1..(i - 1) : d[j].claim_id # d[i].claim_id}
        keep == SelectSeq([i \in DOMAIN d |-> i], LAMBDA i : i \in first)
    IN [k \in DOMAIN keep |-> evaluate_row(d[keep[k]])]

\* The loop of run_all_rules over iterrows() after its first n rows: the
\* list results and the locals of the last iteration
RECURSIVE run_loop(_, _)
run_loop(d, n) ==
    IF n = 0 THEN [locals |-> Unbound, results |-> <<>>]
    ELSE LET before == run_loop(d, n - 1)
             step == evaluate_from(before.locals, d[n])
         IN [locals |-> step.locals,
             results |-> Append(before.results, step.result)]

\* results when the loop has ended, in row order
run_rules(d) == run_loop(d, Len(d)).results

(***************************************************************************)
(* FraudDetector._print_summary: the counts and the three metrics.  A      *)
(* metric is the fraction num/den, den > 0; the arithmetic is exact.       *)
(***************************************************************************)
FracZero == [num |-> 0, den |-> 1]

FracMul(a, b) == [num |-> a.num * b.num, den |-> a.den * b.den]

FracAdd(a, b) ==
    [num |-> a.num * b.den + b.num * a.den, den |-> a.den * b.den]

FracDiv(a, b) == [num |-> a.num * b.den, den |-> a.den * b.num]

\* ((fraud_detected == x) & (actual_fraud == y)).sum()
count_rows(results, detected, actual) ==
    Cardinality({i \in DOMAIN results :
                    /\ results[i].fraud_detected = detected
                    /\ results[i].actual_fraud = actual})

\* precision without its guard
precision_unguarded(tp, fp) == [num |-> tp, den |-> tp + fp]

\* tp / (tp + fp) if (tp + fp) > 0 else 0
precision(tp, fp) ==
    IF tp + fp > 0 THEN [num |-> tp, den |-> tp + fp] ELSE FracZero

\* tp / (tp + fn) if (tp + fn) > 0 else 0
recall(tp, fn) ==
    IF tp + fn > 0 THEN [num |-> tp, den |-> tp + fn] ELSE FracZero

\* 2 * (precision * recall) / (precision + recall)
\*     if (precision + recall) > 0 else 0
f1_score(p, r) ==
    IF FracAdd(p, r).num > 0
    THEN FracDiv(FracMul([num |-> 2, den |-> 1], FracMul(p, r)), FracAdd(p, r))
    ELSE FracZero

NoSummary ==
    [printed |-> FALSE, tp |-> 0, fp |-> 0, fn |-> 0, precision |-> FracZero,
     recall |-> FracZero, f1_score |-> FracZero]

print_summary(results) ==
    LET tp == count_rows(results, TRUE, TRUE)
        fp == count_rows(results, TRUE, FALSE)
        fn == count_rows(results, FALSE, TRUE)
    IN [printed |-> TRUE, tp |-> tp, fp |-> fp, fn |-> fn,
        precision |-> precision(tp, fp),
        recall |-> recall(tp, fn),
        f1_score |-> f1_score(precision(tp, fp), recall(tp, fn))]

(***************************************************************************)
(* FraudETLPipeline.load: the two summary tables.  groupby sorts its keys; *)
(* the specialties are ordered as their names are.                         *)
(***************************************************************************)
SpecialtyOrder == << "Cardiology", "Oncology" >>

SpecialtyRank(name) ==
    CHOOSE k \in DOMAIN SpecialtyOrder : SpecialtyOrder[k] = name

FraudCount(d, S) == Cardinality({i \in S : d[i].is_fraud})

\* groupby(['provider_id', 'provider_specialty']).agg(mean, sum, count of
\* claim_amount, sum of is_fraud).reset_index(), lines 173-174
provider_summary(d) ==
    LET keys == { [provider_id |-> d[i].provider_id,
                   provider_specialty |-> d[i].provider_specialty] :
                  i \in DOMAIN d }
        before(a, b) ==
            \/ a.provider_id < b.provider_id
            \/ /\ a.provider_id = b.provider_id
               /\ SpecialtyRank(a.provider_specialty)
                     < SpecialtyRank(b.provider_specialty)
        nth(n) == CHOOSE k \in keys :
                      Cardinality({a \in keys : before(a, k)}) = n - 1
        rows(k) == {i \in DOMAIN d :
                       /\ d[i].provider_id = k.provider_id
                       /\ d[i].provider_specialty = k.provider_specialty}
    IN [n \in 1..Cardinality(keys) |->
           [provider_id |-> nth(n).provider_id,
            provider_specialty |-> nth(n).provider_specialty,
            avg_claim_amount |-> [sum |-> AmountSum(d, rows(nth(n))),
                                  count |-> Cardinality(rows(nth(n)))],
            total_billed |-> AmountSum(d, rows(nth(n))),
            total_claims |-> Cardinality(rows(nth(n))),
            fraud_claims |-> FraudCount(d, rows(nth(n)))]]

\* groupby('patient_id').agg(sum, count of claim_amount, sum of
\* is_fraud).reset_index(), lines 179-184
patient_summary(d) ==
    LET keys == {d[i].patient_id : i \in DOMAIN d}
        nth(n) == CHOOSE k \in keys :
                      Cardinality({a \in keys : a < k}) = n - 1
        rows(k) == {i \in DOMAIN d : d[i].patient_id = k}
    IN [n \in 1..Cardinality(keys) |->
           [patient_id |-> nth(n),
            total_spent |-> AmountSum(d, rows(nth(n))),
            total_claims |-> Cardinality(rows(nth(n))),
            fraud_claims |-> FraudCount(d, rows(nth(n)))]]

(***************************************************************************)
(* The database as its readers and writers see it.                         *)
(***************************************************************************)
\* to_sql(..., if_exists='append'): an existing table is kept
drops_table_append(exists) == FALSE

\* to_sql(..., if_exists='replace'): an existing table is dropped first
drops_table(exists) == exists

\* What a reader has seen of fraud_flags: nothing yet
NotRead ==
    [read |-> FALSE, runs |-> 0, claim_id |-> 0, result |-> "none",
     fraud_flag |-> <<>>, fraud_detected |-> FALSE, rules_triggered |-> <<>>]

\* SELECT * FROM table WHERE claim_id = ...
where_claim_id(table, claim_id) ==
    SelectSeq(table, LAMBDA row : row.claim_id = claim_id)

\* Line 135: fraud_info['rules_triggered'].split(',') if the string is not
\* empty, else []
rules_triggered_list(rules_triggered) ==
    IF rules_triggered # <<>> THEN split(rules_triggered, ",") ELSE <<>>

\* investigate_single_claim: what the caller gets of the two queries and of
\* the first row of fraud_flags (fraud_info, line 111); rules_triggered is
\* in the returned dict of a flagged claim only.  read_sql_query raises
\* DatabaseError on a table that is not there.
investigate_single_claim(claim_id) ==
    LET claim_data == where_claim_id(claims_table, claim_id)
        fraud_flag == where_claim_id(fraud_flags, claim_id)
        seen(result, rows) ==
            [read |-> TRUE, runs |-> runs, claim_id |-> claim_id,
             result |-> result, fraud_flag |-> rows,
             fraud_detected |-> rows # <<>> /\ rows[1].fraud_detected,
             rules_triggered |->
                 IF rows # <<>> /\ rows[1].fraud_detected
                 THEN rules_triggered_list(rows[1].rules_triggered)
                 ELSE <<>>]
    IN IF claims_table = <<>>
       THEN seen("no such table: claims", <<>>)
       ELSE IF claim_data = <<>>
       THEN seen("Claim not found", <<>>)
       ELSE IF ~flags_exists
       THEN seen("no such table: fraud_flags", <<>>)
       ELSE IF fraud_flag = <<>>
       THEN seen("Fraud flag data not found", <<>>)
       ELSE seen("found", fraud_flag)

(***************************************************************************)
(* FraudEmbeddingsGenerator.create_fraud_documents and                     *)
(* FraudVectorStore.search.  A document is its lines, a line the texts and *)
(* the values of its f-string.  The embedding vectors are held by what     *)
(* search reads of them: the distance of every document to the query.      *)
(***************************************************************************)
\* The columns of f in a row of the LEFT JOIN that matched no row of f:
\* NULLs, told by matched = FALSE
NullFlags ==
    [fraud_detected |-> FALSE, fraud_score |-> 0,
     rules_triggered |-> <<"NULL">>, explanation |-> <<"NULL">>]

\* claims c LEFT JOIN fraud_flags f ON c.claim_id = f.claim_id, one row of
\* c after the other: a row of c is paired with every row of f that has its
\* claim_id, and with NULLs when there is none
RECURSIVE left_join(_, _)
left_join(claims, flags) ==
    IF claims = <<>> THEN <<>>
    ELSE LET c == Head(claims)
             matches == where_claim_id(flags, c.claim_id)
             joined ==
                 IF matches = <<>>
                 THEN << [c |-> c, matched |-> FALSE, f |-> NullFlags] >>
                 ELSE [k \in DOMAIN matches |->
                          [c |-> c, matched |-> TRUE, f |-> matches[k]]]
         IN joined \o left_join(Tail(claims), flags)

\* bool(row['fraud_detected']): 0 is false; 1 is true, and so is the NaN
\* pandas reads of a NULL in a column of numbers
truthy(row) == IF row.matched THEN row.f.fraud_detected ELSE TRUE

\* _create_document_text
create_document_text(row) ==
    << <<"Claim ", ToString(row.c.claim_id), ": ",
         IF truthy(row) THEN "FRAUD" ELSE "LEGITIMATE">>,
       <<"Amount: $", ToString(row.c.claim_amount)>>,
       <<"Date: ", ToString(row.c.claim_date)>>,
       <<"Provider: ", ToString(row.c.provider_id), " (",
         row.c.provider_specialty, ")">>,
       <<"Procedure: ">> \o row.c.procedure_code,
       <<"Diagnosis: ">> \o row.c.diagnosis_code,
       <<"Status: ", row.c.status>> >>
    \o IF truthy(row)
       THEN << <<"Fraud Score: ", ToString(row.f.fraud_score), "/100">>,
               <<"Rules Triggered: ">> \o row.f.rules_triggered,
               <<"Fraud Explanation: ">> \o row.f.explanation >>
       ELSE <<>>

\* The dict appended to metadata, lines 60-65: fraud_score is 0 for a NULL;
\* flagged is bool(fraud_detected), what search reads of the entry
metadata_entry(row) ==
    [claim_id |-> row.c.claim_id,
     fraud_detected |-> row.f.fraud_detected,
     flagged |-> truthy(row),
     fraud_score |-> IF row.matched THEN row.f.fraud_score ELSE 0,
     claim_amount |-> row.c.claim_amount]

\* create_fraud_documents: (documents, metadata) over the joined rows
create_fraud_documents(claims, flags) ==
    LET joined == left_join(claims, flags)
    IN [documents |-> [i \in DOMAIN joined |-> create_document_text(joined[i])],
        metadata |-> [i \in DOMAIN joined |-> metadata_entry(joined[i])]]

\* No search made yet
NotSearched ==
    [searched |-> FALSE, k |-> 0, fraud_only |-> FALSE, distance |-> <<>>,
     results |-> <<>>]

\* The label and the distance faiss gives when the index holds fewer
\* vectors than asked for: -1 and the largest float
NoLabel == -1

FLT_MAX == 1000000

\* index.search(query, n) of an IndexFlatL2: the n nearest vectors by
\* increasing distance (the earlier vector first among equals), filled up to
\* n with the label -1; distance[j] is the distance of vector j to the query
index_search(distance, n) ==
    LET rank(j) == Cardinality({i \in DOMAIN distance :
                                   \/ distance[i] < distance[j]
                                   \/ distance[i] = distance[j] /\ i < j}) + 1
        at(r) == CHOOSE j \in DOMAIN distance : rank(j) = r
    IN [r \in 1..n |->
           IF r <= Len(distance)
           THEN [idx |-> at(r), dist |-> distance[at(r)]]
           ELSE [idx |-> NoLabel, dist |-> FLT_MAX]]

\* list[idx] for a label of faiss: Python counts a negative index from the
\* end of the list, so -1 is the last entry
item(list, idx) == IF idx < 0 THEN list[Len(list) + 1 + idx] ELSE list[idx]

\* The loop of search, lines 63-75, over the candidates not yet seen
RECURSIVE collect(_, _, _, _, _, _)
collect(candidates, docs, meta, k, fraud_only, results) ==
    IF candidates = <<>> THEN results
    ELSE LET hit == Head(candidates)
             rest == Tail(candidates)
         IN IF fraud_only /\ ~item(meta, hit.idx).flagged
            THEN collect(rest, docs, meta, k, fraud_only, results)
            ELSE LET more == Append(results,
                                    [document |-> item(docs, hit.idx),
                                     metadata |-> item(meta, hit.idx),
                                     distance |-> hit.dist])
                 IN IF Len(more) >= k THEN more
                    ELSE collect(rest, docs, meta, k, fraud_only, more)

\* FraudVectorStore.search(query, k, fraud_only)
search(docs, meta, distance, k, fraud_only) ==
    collect(index_search(distance, IF fraud_only THEN k * 5 ELSE k),
            docs, meta, k, fraud_only, <<>>)

(***************************************************************************)
(* The pipeline: FraudETLPipeline.extract, transform, load, then           *)
(* FraudDetector.load_data and run_all_rules.                              *)
(***************************************************************************)
\* self.df as read by extract
Extract ==
    /\ pc = "start"
    /\ df' = csv
    /\ pc' = "extracted"
    /\ UNCHANGED <<csv, claims_table, det_df, fraud_flags, results_df,
                   summary, flags_exists, runs, observed, raised, out, stage,
                   store_error, providers_table, patients_table, documents,
                   metadata, search_results>>

\* transform: self.df becomes the enriched frame, or the call raises at the
\* first windowed count (line 57) and the run ends; the frame is by then
\* sorted (its columns of lines 24-50 are not kept in the failed state)
Transform ==
    /\ pc = "extracted"
    /\ IF apply_raises(df)
       THEN /\ pc' = "failed"
            /\ raised' = "ValueError"
            /\ df' = sort_values(df)
       ELSE /\ pc' = "transformed"
            /\ raised' = raised
            /\ df' = transform(df)
    /\ UNCHANGED <<csv, claims_table, det_df, fraud_flags, results_df,
                   summary, flags_exists, runs, observed, out, stage,
                   store_error, providers_table, patients_table, documents,
                   metadata, search_results>>

\* load: the enriched frame replaces the table claims, its summaries by
\* provider and by patient the tables providers and patients, each followed
\* by its line "Saved ... table"
Load ==
    /\ pc = "transformed"
    /\ claims_table' = df
    /\ providers_table' = provider_summary(df)
    /\ patients_table' = patient_summary(df)
    /\ out' = out \o << "Saved 'claims' table", "Saved 'providers' table",
                        "Saved 'patients' table" >>
    /\ pc' = "loaded"
    /\ UNCHANGED <<csv, df, det_df, fraud_flags, results_df, summary,
                   flags_exists, runs, observed, raised, stage, store_error,
                   documents, metadata, search_results>>

\* load_data: SELECT * FROM claims, then the line "Loaded n claims"
LoadData ==
    /\ pc = "loaded"
    /\ det_df' = claims_table
    /\ out' = Append(out, "Loaded claims from database")
    /\ pc' = "detecting"
    /\ UNCHANGED <<csv, df, claims_table, fraud_flags, results_df, summary,
                   flags_exists, runs, observed, raised, stage, store_error,
                   providers_table, patients_table, documents, metadata,
                   search_results>>

\* The loop writing its verdict back into the frame it iterates over
frame_after_loop_scored(d, results) ==
    [i \in DOMAIN d |-> [d[i] EXCEPT !.is_fraud = results[i].fraud_detected]]

\* self.df when the loop has ended: iterrows() hands out each row as a
\* Series of its own and the loop assigns to neither the row nor the frame
frame_after_loop(d, results) == d

\* run_all_rules up to its call of _save_results: one result per row, the
\* frame of the results and its summary.  pd.DataFrame([]) has no columns,
\* so over a frame without rows _print_summary raises KeyError at line 177.
RunAllRules ==
    /\ pc = "detecting"
    /\ IF det_df = <<>>
       THEN /\ pc' = "failed"
            /\ raised' = "KeyError"
            /\ UNCHANGED <<det_df, results_df, summary>>
       ELSE /\ pc' = "saving"
            /\ raised' = raised
            /\ results_df' = run_rules(det_df)
            /\ det_df' = frame_after_loop(det_df, run_rules(det_df))
            /\ summary' = print_summary(run_rules(det_df))
    /\ UNCHANGED <<csv, df, claims_table, fraud_flags, flags_exists, runs,
                   observed, out, stage, store_error, providers_table,
                   patients_table, documents, metadata, search_results>>

\* _save_results, first part: to_sql(..., if_exists='replace') drops the
\* table when there is one and creates it.  DROP TABLE and CREATE TABLE are
\* statements outside any transaction (sqlite3 opens one only before
\* INSERT, UPDATE, DELETE and REPLACE), so each is committed as it runs.
ToSqlCreate ==
    /\ pc = "saving"
    /\ IF drops_table(flags_exists)
       THEN /\ flags_exists' = FALSE
            /\ fraud_flags' = <<>>
            /\ pc' = "saving"
       ELSE /\ flags_exists' = TRUE
            /\ fraud_flags' = fraud_flags
            /\ pc' = "created"
    /\ UNCHANGED <<csv, df, claims_table, det_df, results_df, summary, runs,
                   observed, raised, out, stage, store_error, providers_table,
                   patients_table, documents, metadata, search_results>>

\* _save_results, second part: the rows are inserted in one transaction
\* and committed, then the line "Saved fraud flags to database"
ToSqlInsert ==
    /\ pc = "created"
    /\ fraud_flags' = fraud_flags \o results_df
    /\ out' = Append(out, "Saved fraud flags to database")
    /\ runs' = runs + 1
    /\ pc' = "done"
    /\ UNCHANGED <<csv, df, claims_table, det_df, results_df, summary,
                   flags_exists, observed, raised, stage, store_error,
                   providers_table, patients_table, documents, metadata,
                   search_results>>

\* A function wrapping its body in "try: ... except Exception: pass": the
\* error is dropped and the caller goes on as after a return
propagated_swallowed(after) == after

\* load, load_data and _save_results have no try block: an exception of
\* sqlite3.connect, read_sql_query or to_sql leaves the function raised
propagated(after) == "failed"

\* load with the database unavailable: nothing is written or printed
LoadFails ==
    /\ pc = "transformed"
    /\ store_error' = "load"
    /\ pc' = propagated("loaded")
    /\ raised' = IF pc' = "failed" THEN "OperationalError" ELSE raised
    /\ UNCHANGED <<csv, df, claims_table, det_df, fraud_flags, results_df,
                   summary, flags_exists, runs, observed, out, stage,
                   providers_table, patients_table, documents, metadata,
                   search_results>>

\* load_data with the database unavailable
LoadDataFails ==
    /\ pc = "loaded"
    /\ store_error' = "load_data"
    /\ pc' = propagated("detecting")
    /\ raised' = IF pc' = "failed" THEN "OperationalError" ELSE raised
    /\ UNCHANGED <<csv, df, claims_table, det_df, fraud_flags, results_df,
                   summary, flags_exists, runs, observed, out, stage,
                   providers_table, patients_table, documents, metadata,
                   search_results>>

\* _save_results with the database unavailable, at its start or after the
\* table was dropped or created: what is committed stays
SaveResultsFails ==
    /\ pc \in {"saving", "created"}
    /\ store_error' = "_save_results"
    /\ pc' = propagated("done")
    /\ raised' = IF pc' = "failed" THEN "OperationalError" ELSE raised
    /\ UNCHANGED <<csv, df, claims_table, det_df, fraud_flags, results_df,
                   summary, flags_exists, runs, observed, out, stage,
                   providers_table, patients_table, documents, metadata,
                   search_results>>

Next ==
    Extract \/ Transform \/ Load \/ LoadData \/ RunAllRules \/ ToSqlCreate
        \/ ToSqlInsert

NextRules == LoadData \/ RunAllRules \/ ToSqlCreate \/ ToSqlInsert

\* The state after construction, the CSV holding the population rows and
\* the database file not yet written
InitWith(rows) ==
    /\ csv = rows
    /\ df = <<>>
    /\ claims_table = <<>>
    /\ providers_table = <<>>
    /\ patients_table = <<>>
    /\ documents = <<>>
    /\ metadata = <<>>
    /\ search_results = NotSearched
    /\ det_df = <<>>
    /\ fraud_flags = <<>>
    /\ pc = "start"
    /\ results_df = <<>>
    /\ summary = NoSummary
    /\ flags_exists = FALSE
    /\ runs = 0
    /\ observed = NotRead
    /\ raised = "none"
    /\ out = <<>>
    /\ stage = "none"
    /\ store_error = "none"

(***************************************************************************)
(* Populations.                                                            *)
(***************************************************************************)
BaseClaim ==
    [claim_id |-> 0, patient_id |-> 1, provider_id |-> 1,
     provider_specialty |-> "Cardiology",
     procedure_code |-> Code("CARD", D001),
     diagnosis_code |-> D("HEART") \o <<"0", "1">>,
     claim_amount |-> 10, claim_date |-> 0, status |-> "approved",
     is_fraud |-> FALSE]

\* The nondecreasing sequences of length len over lo..hi
RECURSIVE NonDecSeqs(_, _, _)
NonDecSeqs(len, lo, hi) ==
    IF len = 0 THEN {<<>>}
    ELSE UNION {{<<i>> \o t : t \in NonDecSeqs(len - 1, i, hi)} : i \in lo..hi}

\* All sequences of length 1..n over S
SeqsUpTo(S, n) == UNION {[1..k -> S] : k \in 1..n}

\* Patients and dates for the windowed counts.  The dates sit on both sides
\* of the edges of the two windows: 7 and 8 days apart, 30 and 31 days apart.
VelocityOptions ==
    << [p |-> 2, d |-> 38], [p |-> 1, d |-> 38], [p |-> 2, d |-> 31],
       [p |-> 1, d |-> 31], [p |-> 2, d |-> 8], [p |-> 1, d |-> 8],
       [p |-> 2, d |-> 1], [p |-> 1, d |-> 1], [p |-> 2, d |-> 0],
       [p |-> 1, d |-> 0] >>

\* Claims with ids of their own (the row number), given as rows in the order
\* of VelocityOptions: every multiset of up to MaxVelocityClaims
\* (patient, date) pairs.
VelocityPopulations ==
    { [j \in DOMAIN s |->
          [BaseClaim EXCEPT !.claim_id = j,
                            !.patient_id = VelocityOptions[s[j]].p,
                            !.claim_date = VelocityOptions[s[j]].d]] :
      s \in UNION {NonDecSeqs(k, 1, Len(VelocityOptions)) :
                   k \in 1..MaxVelocityClaims} }

InitVelocity == \E rows \in VelocityPopulations : InitWith(rows)

SpecVelocity == InitVelocity /\ [][Next]_vars

\* Duplicated claim ids: every sequence of up to MaxDupClaims claims over
\* three claim ids and two patients.
DupOptions == {[c |-> c, p |-> p] : c \in 1..3, p \in 1..2}

DupPopulations ==
    { [j \in DOMAIN s |->
          [BaseClaim EXCEPT !.claim_id = s[j].c, !.patient_id = s[j].p]] :
      s \in SeqsUpTo(DupOptions, MaxDupClaims) }

InitDuplicate == \E rows \in DupPopulations : InitWith(rows)

SpecDuplicate == InitDuplicate /\ [][Next]_vars

\* Same-day surgeries: every sequence of up to MaxSurgeryClaims claims over
\* two patients, two days and three procedures, two of them surgical.
SurgeryOptions ==
    {[p |-> p, d |-> d, proc |-> proc] :
        p \in 1..2, d \in 0..1,
        proc \in {Code("SURG", D001), Code("ONC", D002), Code("CARD", D001)}}

SurgeryPopulations ==
    { [j \in DOMAIN s |->
          [BaseClaim EXCEPT !.claim_id = j, !.patient_id = s[j].p,
                            !.claim_date = s[j].d,
                            !.procedure_code = s[j].proc]] :
      s \in SeqsUpTo(SurgeryOptions, MaxSurgeryClaims) }

InitSurgery == \E rows \in SurgeryPopulations : InitWith(rows)

SpecSurgery == InitSurgery /\ [][Next]_vars

\* Amounts: every sequence of up to MaxAmountClaims claims over two
\* specialties, two providers and three amounts (1,000, 2,000 and 60,000
\* dollars), each claim of a patient of its own.
AmountOptions ==
    {[s |-> s, v |-> v, a |-> a] :
        s \in {"Cardiology", "Oncology"}, v \in 1..2, a \in {10, 20, 600}}

AmountPopulations ==
    { [j \in DOMAIN s |->
          [BaseClaim EXCEPT !.claim_id = j, !.patient_id = j,
                            !.provider_specialty = s[j].s,
                            !.provider_id = s[j].v,
                            !.claim_amount = s[j].a]] :
      s \in SeqsUpTo(AmountOptions, MaxAmountClaims) }

InitAmounts == \E rows \in AmountPopulations : InitWith(rows)

SpecAmounts == InitAmounts /\ [][Next]_vars

\* Codes: one claim, its diagnosis code 1..MaxDiagTokens tokens joined by
\* underscores, its procedure code a prefix followed by up to MaxProcDigits
\* digits (or by 001, the form the generator emits).
DiagTokens ==
    { <<"D">>, <<"HEART">>, <<"HEART", "0", "1">>, <<"FLU">>, <<"XYZ">> }

DiagCodes ==
    { join(ts, <<"_">>) : ts \in SeqsUpTo(DiagTokens, MaxDiagTokens) }

DigitStrings == {<<>>} \cup SeqsUpTo({"0", "1"}, MaxProcDigits)

ProcCodes ==
    { Code(prefix, ds) :
        prefix \in {"CARD", "GP", "SURG"}, ds \in DigitStrings \cup {D001} }

CodePopulations ==
    { << [BaseClaim EXCEPT !.claim_id = 1, !.diagnosis_code = dc,
                           !.procedure_code = pcode] >> :
      dc \in DiagCodes, pcode \in ProcCodes }

InitCodes == \E rows \in CodePopulations : InitWith(rows)

SpecCodes == InitCodes /\ [][Next]_vars

\* Runs that share one database file: every sequence of up to
\* MaxStoreClaims claims over two claims of two patients, the population
\* without claims (a CSV of the header line alone) included, again at every
\* later run of the pipeline.
StoreClaimIds == {1, 2}

StorePopulations ==
    { [j \in DOMAIN s |->
          [BaseClaim EXCEPT !.claim_id = s[j], !.patient_id = s[j]]] :
      s \in {<<>>} \cup SeqsUpTo(StoreClaimIds, MaxStoreClaims) }

\* A later run of the pipeline on the same database file, in a process of
\* its own and over raw claims of its own: etl.py, then rules.py
RerunPipeline ==
    /\ pc = "done"
    /\ runs < MaxRuns
    /\ \E rows \in StorePopulations : csv' = rows
    /\ df' = <<>>
    /\ det_df' = <<>>
    /\ results_df' = <<>>
    /\ summary' = NoSummary
    /\ out' = <<>>
    /\ pc' = "start"
    /\ UNCHANGED <<claims_table, fraud_flags, flags_exists, runs, observed,
                   raised, stage, store_error, providers_table,
                   patients_table, documents, metadata, search_results>>

\* A later run of the detector alone on the same database file: rules.py
RerunDetector ==
    /\ pc = "done"
    /\ runs < MaxRuns
    /\ det_df' = <<>>
    /\ results_df' = <<>>
    /\ summary' = NoSummary
    /\ out' = <<>>
    /\ pc' = "loaded"
    /\ UNCHANGED <<csv, df, claims_table, fraud_flags, flags_exists, runs,
                   observed, raised, stage, store_error, providers_table,
                   patients_table, documents, metadata, search_results>>

\* investigate_single_claim up to line 111, in a process of its own at any
\* moment of the run: the claim is looked up in claims, then in fraud_flags
InvestigateSingleClaim ==
    /\ \E claim_id \in StoreClaimIds :
          observed' = investigate_single_claim(claim_id)
    /\ UNCHANGED <<csv, df, claims_table, det_df, fraud_flags, pc, results_df,
                   summary, flags_exists, runs, raised, out, stage,
                   store_error, providers_table, patients_table, documents,
                   metadata, search_results>>

NextStore == Next \/ RerunPipeline \/ InvestigateSingleClaim

NextReader == Next \/ RerunDetector \/ InvestigateSingleClaim

InitStore == \E rows \in StorePopulations : InitWith(rows)

SpecStore == InitStore /\ [][NextStore]_vars

SpecReader == InitStore /\ [][NextReader]_vars

\* generate_embeddings on the database of a completed run, in a process of
\* its own (embeddings.py): the documents and the metadata are built, the
\* documents encoded, and the three files written
GenerateEmbeddings ==
    /\ pc = "done"
    /\ documents' = create_fraud_documents(claims_table, fraud_flags).documents
    /\ metadata' = create_fraud_documents(claims_table, fraud_flags).metadata
    /\ pc' = "embedded"
    /\ UNCHANGED <<csv, df, claims_table, det_df, fraud_flags, results_df,
                   summary, flags_exists, runs, observed, raised, out, stage,
                   store_error, providers_table, patients_table,
                   search_results>>

NextEmbed == Next \/ GenerateEmbeddings

SpecEmbed == InitDuplicate /\ [][NextEmbed]_vars

\* A vector store as load_index leaves it: up to MaxStoreDocs documents,
\* each of a claim of its own, flagged or not
StoreEntries ==
    { [fraud_detected |-> detected,
       fraud_score |-> IF detected THEN 25 ELSE 0] :
      detected \in BOOLEAN }

StoredRow(entry, j) ==
    [c |-> [BaseClaim EXCEPT !.claim_id = j],
     matched |-> TRUE,
     f |-> [fraud_detected |-> entry.fraud_detected,
            fraud_score |-> entry.fraud_score,
            rules_triggered |-> IF entry.fraud_detected
                                THEN <<"AMOUNT_ANOMALY">> ELSE <<"NONE">>,
            explanation |-> IF entry.fraud_detected
                            THEN <<"Abnormally high amount: $", "600">>
                            ELSE <<"No fraud detected">>]]

InitSearch ==
    \E entries \in SeqsUpTo(StoreEntries, MaxStoreDocs) :
        /\ documents = [j \in DOMAIN entries |->
                            create_document_text(StoredRow(entries[j], j))]
        /\ metadata = [j \in DOMAIN entries |->
                           metadata_entry(StoredRow(entries[j], j))]
        /\ search_results = NotSearched
        /\ csv = <<>>
        /\ df = <<>>
        /\ claims_table = <<>>
        /\ providers_table = <<>>
        /\ patients_table = <<>>
        /\ det_df = <<>>
        /\ fraud_flags = <<>>
        /\ pc = "embedded"
        /\ results_df = <<>>
        /\ summary = NoSummary
        /\ flags_exists = FALSE
        /\ runs = 0
        /\ observed = NotRead
        /\ raised = "none"
        /\ out = <<>>
        /\ stage = "none"
        /\ store_error = "none"

\* search(query, k, fraud_only): the query is given by the distance of
\* every stored document to it, one of two distances
Search ==
    /\ pc = "embedded"
    /\ \E k \in 1..MaxK, fraud_only \in BOOLEAN,
          distance \in [DOMAIN documents -> {1, 2}] :
          search_results' =
              [searched |-> TRUE, k |-> k, fraud_only |-> fraud_only,
               distance |-> distance,
               results |-> search(documents, metadata, distance, k, fraud_only)]
    /\ UNCHANGED <<csv, df, claims_table, det_df, fraud_flags, pc, results_df,
                   summary, flags_exists, runs, observed, raised, out, stage,
                   store_error, providers_table, patients_table, documents,
                   metadata>>

SpecSearch == InitSearch /\ [][Search]_vars

(***************************************************************************)
(* setup_data_pipeline.main: four stages, each a try block whose except    *)
(* clause prints the error and returns.  main imports ClaimsGenerator from *)
(* data.generator and calls FraudDetector.detect_fraud; src/ holds neither *)
(* name (the generator class is FraudDataGenerator, the detector has       *)
(* load_data and run_all_rules), so the try blocks of stages 1 and 3 raise *)
(* before their stage does anything: MainGenerate and MainDetectFraud.     *)
(* MainGenerateClaims and MainDetectRules are the two stages as they are   *)
(* said to work: write the raw claims, run the six rules.                  *)
(***************************************************************************)
\* The names data.generator defines at module level
generator_names == {"FraudDataGenerator"}

\* The attributes of a FraudDetector
detector_names ==
    { "db_path", "df", "load_data", "run_all_rules", "rule_duplicate_claims",
      "rule_amount_anomaly", "rule_code_mismatch", "rule_velocity_fraud",
      "rule_provider_outlier", "rule_impossible_scenario", "_print_summary",
      "_save_results" }

\* "from module import name" and "object.name": ImportError and
\* AttributeError when the name is not there
resolves(names, name) == name \in names

\* "except Exception as e: print(...)" falling through to the next stage
except_continues(next_stage) == next_stage

\* "except Exception as e: print(...); return"
except_returns(next_stage) == "returned"

\* Stage 1: "from data.generator import ClaimsGenerator" raises ImportError
\* inside the try block
MainGenerate ==
    /\ stage = "generate"
    /\ pc = "main"
    /\ ~resolves(generator_names, "ClaimsGenerator")
    /\ raised' = "ImportError"
    /\ out' = out \o <<"STEP 1", "Error in data generation">>
    /\ stage' = except_returns("etl")
    /\ UNCHANGED <<csv, df, claims_table, det_df, fraud_flags, pc, results_df,
                   summary, flags_exists, runs, observed, store_error,
                   providers_table, patients_table, documents, metadata,
                   search_results>>

\* Stage 1 with a generator behind the imported name: the raw claims are
\* generated and written to the CSV, or the generator raises
MainGenerateClaims ==
    /\ stage = "generate"
    /\ pc = "main"
    /\ \/ /\ \E rows \in StorePopulations : csv' = rows
          /\ out' = out \o <<"STEP 1", "Successfully generated claims data!">>
          /\ stage' = "etl"
          /\ raised' = raised
       \/ /\ csv' = csv
          /\ out' = out \o <<"STEP 1", "Error in data generation">>
          /\ stage' = except_returns("etl")
          /\ raised' = "Exception"
    /\ UNCHANGED <<df, claims_table, det_df, fraud_flags, pc, results_df,
                   summary, flags_exists, runs, observed, store_error,
                   providers_table, patients_table, documents, metadata,
                   search_results>>

\* Stage 2 begins: FraudETLPipeline().run()
MainRunETL ==
    /\ stage = "etl"
    /\ pc = "main"
    /\ out' = Append(out, "STEP 2")
    /\ pc' = "start"
    /\ UNCHANGED <<csv, df, claims_table, det_df, fraud_flags, results_df,
                   summary, flags_exists, runs, observed, raised, stage,
                   store_error, providers_table, patients_table, documents,
                   metadata, search_results>>

\* Stage 2 ends: run() returned or raised
MainETLReturns ==
    /\ stage = "etl"
    /\ pc \in {"loaded", "failed"}
    /\ IF pc = "failed"
       THEN /\ out' = Append(out, "Error in ETL pipeline")
            /\ stage' = except_returns("detect")
       ELSE /\ out' = Append(out, "Successfully completed ETL pipeline!")
            /\ stage' = "detect"
    /\ pc' = "main"
    /\ UNCHANGED <<csv, df, claims_table, det_df, fraud_flags, results_df,
                   summary, flags_exists, runs, observed, raised, store_error,
                   providers_table, patients_table, documents, metadata,
                   search_results>>

\* Stage 3: "detector.detect_fraud()" raises AttributeError inside the try
\* block
MainDetectFraud ==
    /\ stage = "detect"
    /\ pc = "main"
    /\ ~resolves(detector_names, "detect_fraud")
    /\ out' = Append(out, "STEP 3")
    /\ raised' = "AttributeError"
    /\ pc' = "failed"
    /\ UNCHANGED <<csv, df, claims_table, det_df, fraud_flags, results_df,
                   summary, flags_exists, runs, observed, stage, store_error,
                   providers_table, patients_table, documents, metadata,
                   search_results>>

\* Stage 3 with load_data and run_all_rules behind the called name: the
\* detector loads the claims and runs the rules
MainDetectRules ==
    /\ stage = "detect"
    /\ pc = "main"
    /\ out' = Append(out, "STEP 3")
    /\ pc' = "loaded"
    /\ UNCHANGED <<csv, df, claims_table, det_df, fraud_flags, results_df,
                   summary, flags_exists, runs, observed, raised, stage,
                   store_error, providers_table, patients_table, documents,
                   metadata, search_results>>

\* Stage 3 ends
MainDetectReturns ==
    /\ stage = "detect"
    /\ pc \in {"done", "failed"}
    /\ IF pc = "failed"
       THEN /\ out' = Append(out, "Error in fraud detection")
            /\ stage' = except_returns("embed")
       ELSE /\ out' = Append(out, "Successfully completed fraud detection!")
            /\ stage' = "embed"
    /\ pc' = "main"
    /\ UNCHANGED <<csv, df, claims_table, det_df, fraud_flags, results_df,
                   summary, flags_exists, runs, observed, raised, store_error,
                   providers_table, patients_table, documents, metadata,
                   search_results>>

\* Stage 4: generate_embeddings builds the documents and returns, or raises
MainEmbed ==
    /\ stage = "embed"
    /\ pc = "main"
    /\ \/ /\ out' = out \o <<"STEP 4", "Successfully generated embeddings!">>
          /\ documents' =
                create_fraud_documents(claims_table, fraud_flags).documents
          /\ metadata' =
                create_fraud_documents(claims_table, fraud_flags).metadata
          /\ stage' = "summary"
          /\ raised' = raised
       \/ /\ out' = out \o <<"STEP 4", "Error in embeddings generation">>
          /\ stage' = except_returns("summary")
          /\ raised' = "Exception"
          /\ UNCHANGED <<documents, metadata>>
    /\ UNCHANGED <<csv, df, claims_table, det_df, fraud_flags, pc, results_df,
                   summary, flags_exists, runs, observed, store_error,
                   providers_table, patients_table, search_results>>

\* The closing summary
MainSummary ==
    /\ stage = "summary"
    /\ pc = "main"
    /\ out' = Append(out, "DATA PIPELINE COMPLETE!")
    /\ stage' = "returned"
    /\ UNCHANGED <<csv, df, claims_table, det_df, fraud_flags, pc, results_df,
                   summary, flags_exists, runs, observed, raised, store_error,
                   providers_table, patients_table, documents, metadata,
                   search_results>>

NextMain ==
    \/ MainGenerate \/ MainGenerateClaims \/ MainRunETL \/ MainETLReturns
    \/ MainDetectFraud \/ MainDetectRules \/ MainDetectReturns \/ MainEmbed
    \/ MainSummary
    \/ (stage = "etl" /\ (Extract \/ Transform \/ Load \/ LoadFails))
    \/ (stage = "detect"
           /\ (NextRules \/ LoadDataFails \/ SaveResultsFails))

\* main after its banner and the ENTER of its user: no CSV yet, a database
\* file not yet written
InitMain ==
    /\ csv = <<>>
    /\ df = <<>>
    /\ claims_table = <<>>
    /\ providers_table = <<>>
    /\ patients_table = <<>>
    /\ documents = <<>>
    /\ metadata = <<>>
    /\ search_results = NotSearched
    /\ det_df = <<>>
    /\ fraud_flags = <<>>
    /\ pc = "main"
    /\ results_df = <<>>
    /\ summary = NoSummary
    /\ flags_exists = FALSE
    /\ runs = 0
    /\ observed = NotRead
    /\ raised = "none"
    /\ out = <<>>
    /\ stage = "generate"
    /\ store_error = "none"

SpecMain == InitMain /\ [][NextMain]_vars

\* Enriched rows for the rule evaluator alone: every combination of the
\* feature values the six rules read, on both sides of every threshold.
ZScores ==
    { Zero,
      [kind |-> "num", sgn |-> 1, num |-> 9, den |-> 1],
      [kind |-> "num", sgn |-> 1, num |-> 10, den |-> 1],
      [kind |-> "num", sgn |-> -1, num |-> 16, den |-> 1] }

EnrichedRows ==
    { [enrich(<<BaseClaim>>, 1) EXCEPT
          !.duplicate_count = dup, !.is_duplicate = dup > 1,
          !.amount_zscore = z, !.is_high_amount = high,
          !.is_code_mismatch = mism,
          !.patient_claims_7d = c7, !.patient_claims_30d = c30,
          !.is_provider_outlier = outl,
          !.same_day_surgeries = sds, !.is_surgery = surg] :
      dup \in 1..3, z \in ZScores, high \in BOOLEAN, mism \in BOOLEAN,
      c7 \in 2..5, c30 \in 9..10, outl \in BOOLEAN, sds \in BOOLEAN,
      surg \in BOOLEAN }

\* The detector run on its own over a claims table of one enriched row
InitRules ==
    \E row \in EnrichedRows :
        /\ csv = <<>>
        /\ df = <<>>
        /\ claims_table = <<row>>
        /\ providers_table = provider_summary(<<row>>)
        /\ patients_table = patient_summary(<<row>>)
        /\ documents = <<>>
        /\ metadata = <<>>
        /\ search_results = NotSearched
        /\ det_df = <<>>
        /\ fraud_flags = <<>>
        /\ pc = "loaded"
        /\ results_df = <<>>
        /\ summary = NoSummary
        /\ flags_exists = FALSE
        /\ runs = 0
        /\ observed = NotRead
        /\ raised = "none"
        /\ out = <<>>
        /\ stage = "none"
        /\ store_error = "none"

SpecRules == InitRules /\ [][NextRules]_vars

\* investigate_single_claim of the claim of the table, in a process of its
\* own at any moment of the detector's run
InvestigateRuleClaim ==
    /\ observed' = investigate_single_claim(BaseClaim.claim_id)
    /\ UNCHANGED <<csv, df, claims_table, det_df, fraud_flags, pc, results_df,
                   summary, flags_exists, runs, raised, out, stage,
                   store_error, providers_table, patients_table, documents,
                   metadata, search_results>>

NextInvestigate == NextRules \/ InvestigateRuleClaim

SpecInvestigate == InitRules /\ [][NextInvestigate]_vars

\* Claims tables for the summary: every sequence of up to MaxSummaryRows
\* enriched rows, each flagged by a rule or by none (is_high_amount) and
\* labelled fraud or not (is_fraud).
SummaryRows ==
    { [enrich(<<BaseClaim>>, 1) EXCEPT !.is_high_amount = high,
                                       !.is_fraud = fraud] :
      high \in BOOLEAN, fraud \in BOOLEAN }

InitSummary ==
    \E rows \in SeqsUpTo(SummaryRows, MaxSummaryRows) :
        /\ csv = <<>>
        /\ df = <<>>
        /\ claims_table = rows
        /\ providers_table = provider_summary(rows)
        /\ patients_table = patient_summary(rows)
        /\ documents = <<>>
        /\ metadata = <<>>
        /\ search_results = NotSearched
        /\ det_df = <<>>
        /\ fraud_flags = <<>>
        /\ pc = "loaded"
        /\ results_df = <<>>
        /\ summary = NoSummary
        /\ flags_exists = FALSE
        /\ runs = 0
        /\ observed = NotRead
        /\ raised = "none"
        /\ out = <<>>
        /\ stage = "none"
        /\ store_error = "none"

SpecSummary == InitSummary /\ [][NextRules]_vars

(***************************************************************************)
(* Reading the state.                                                      *)
(***************************************************************************)
\* df holds the enriched frame
Transformed == pc \in {"transformed", "loaded", "detecting", "done"}

\* fraud_flags[i] is the assessment of det_df[i]
Assessed == pc = "done"

\* The labels of a rules_triggered string, in order: its parts between ", "
LabelsOf(rules_triggered) ==
    IF rules_triggered = <<"NONE">> THEN <<>>
    ELSE SelectSeq(rules_triggered, LAMBDA a : a \notin {",", " "})

Triggers(assessment, label) ==
    \E k \in DOMAIN assessment.rules_triggered :
        assessment.rules_triggered[k] = label

\* The claims of the raw population of patient p dated in [date - days, date]
InWindow(p, date, days) ==
    {j \in DOMAIN csv :
        /\ csv[j].patient_id = p
        /\ date - csv[j].claim_date >= 0
        /\ date - csv[j].claim_date <= days}

\* Five rows of one patient, no two of them more than 6 days apart
FiveInSpan(S) ==
    /\ Cardinality(S) = 5
    /\ \A i, j \in S :
          /\ det_df[i].patient_id = det_df[j].patient_id
          /\ det_df[i].claim_date - det_df[j].claim_date <= 6

(***************************************************************************)
(* C4 as stated: when a patient has 5 claims dated within a 7-day span,    *)
(* every one of the five has patient_claims_7d >= 5 and triggers           *)
(* VELOCITY_FRAUD.  Violated: the window trails, so the earliest of five   *)
(* claims on distinct days counts only itself.                             *)
(***************************************************************************)
C4_EveryClaimOfFive ==
    Assessed =>
        \A S \in SUBSET DOMAIN det_df :
            FiveInSpan(S) =>
                \A i \in S :
                    /\ det_df[i].patient_claims_7d >= 5
                    /\ Triggers(fraud_flags[i], "VELOCITY_FRAUD")

(***************************************************************************)
(* C4 amended: when a patient has 5 claims dated within a 7-day span, each *)
(* of the five dated on the last day of the span has                       *)
(* patient_claims_7d >= 5 and triggers VELOCITY_FRAUD.                     *)
(***************************************************************************)
C4_LatestClaimOfFive ==
    Assessed =>
        \A S \in SUBSET DOMAIN det_df :
            FiveInSpan(S) =>
                \A i \in S :
                    (\A j \in S : det_df[j].claim_date <= det_df[i].claim_date)
                    => /\ det_df[i].patient_claims_7d >= 5
                       /\ Triggers(fraud_flags[i], "VELOCITY_FRAUD")

\* Five claims of one patient on more than one day of a 7-day span, the
\* last flagged and the first not.
C4_Witness ==
    /\ Assessed
    /\ \E S \in SUBSET DOMAIN det_df :
          /\ FiveInSpan(S)
          /\ \E i, j \in S :
                /\ det_df[j].claim_date < det_df[i].claim_date
                /\ Triggers(fraud_flags[i], "VELOCITY_FRAUD")
                /\ ~Triggers(fraud_flags[j], "VELOCITY_FRAUD")

(***************************************************************************)
(* C5: after transform, patient_claims_7d (patient_claims_30d) of a claim  *)
(* is the number of claims of the population of the same patient dated in  *)
(* the inclusive window of 7 (30) days ending on the claim's date: the     *)
(* claim itself counts, later claims, claims older than the window and     *)
(* other patients' claims do not.                                          *)
(***************************************************************************)
C5_WindowCounts ==
    Transformed =>
        \A i \in DOMAIN df :
            /\ df[i].patient_claims_7d =
                  Cardinality(InWindow(df[i].patient_id, df[i].claim_date, 7))
            /\ df[i].patient_claims_30d =
                  Cardinality(InWindow(df[i].patient_id, df[i].claim_date, 30))
            /\ df[i].patient_claims_7d >= 1
            /\ df[i].patient_claims_30d >= df[i].patient_claims_7d

\* A claim with claims of its patient exactly 7, 8, 30 and 31 days before
\* it, one after it, and another patient's claim on its day.
C5_Witness ==
    /\ pc = "transformed"
    /\ \E i, a, b \in DOMAIN df :
          /\ df[a].patient_id = df[i].patient_id
          /\ df[b].patient_id = df[i].patient_id
          /\ df[a].claim_date = df[i].claim_date - 7
          /\ df[b].claim_date = df[i].claim_date - 8
          /\ df[i].patient_claims_7d = 2
    /\ \E i, a, b \in DOMAIN df :
          /\ df[a].patient_id = df[i].patient_id
          /\ df[b].patient_id = df[i].patient_id
          /\ df[a].claim_date = df[i].claim_date - 30
          /\ df[b].claim_date = df[i].claim_date - 31
          /\ df[i].patient_claims_30d = 2
    /\ \E i, a, b \in DOMAIN df :
          /\ df[a].patient_id = df[i].patient_id
          /\ df[a].claim_date > df[i].claim_date
          /\ df[b].patient_id # df[i].patient_id
          /\ df[b].claim_date = df[i].claim_date
          /\ df[i].patient_claims_7d = 1

(***************************************************************************)
(* The rules as the claims state them.                                     *)
(***************************************************************************)
RuleOrder ==
    << "DUPLICATE", "AMOUNT_ANOMALY", "CODE_MISMATCH", "VELOCITY_FRAUD",
       "PROVIDER_OUTLIER", "IMPOSSIBLE_SCENARIO" >>

RuleWeight ==
    [l \in {"DUPLICATE", "VELOCITY_FRAUD"} |-> 20] @@
    [l \in {"AMOUNT_ANOMALY"} |-> 25] @@
    [l \in {"CODE_MISMATCH", "PROVIDER_OUTLIER"} |-> 15] @@
    [l \in {"IMPOSSIBLE_SCENARIO"} |-> 30]

\* |z| > k for a z-score held by its square
ZAbsExceeds(z, k) ==
    \/ z.kind = "inf"
    \/ z.kind = "num" /\ z.num > k * k * z.den

TriggerPredicate(label, row) ==
    CASE label = "DUPLICATE" -> row.duplicate_count > 1
      [] label = "AMOUNT_ANOMALY" ->
            ZAbsExceeds(row.amount_zscore, 3) \/ row.is_high_amount
      [] label = "CODE_MISMATCH" -> row.is_code_mismatch
      [] label = "VELOCITY_FRAUD" ->
            row.patient_claims_7d >= 5 \/ row.patient_claims_30d >= 10
      [] label = "PROVIDER_OUTLIER" -> row.is_provider_outlier
      [] label = "IMPOSSIBLE_SCENARIO" ->
            \/ row.same_day_surgeries
            \/ row.is_surgery /\ row.patient_claims_7d >= 3

ExpectedLabels(row) ==
    SelectSeq(RuleOrder, LAMBDA l : TriggerPredicate(l, row))

RECURSIVE WeightSum(_)
WeightSum(labels) ==
    IF labels = <<>> THEN 0
    ELSE RuleWeight[Head(labels)] + WeightSum(Tail(labels))

(***************************************************************************)
(* C1: every assessment row has 0 <= fraud_score <= 100, and its           *)
(* fraud_score is 0 exactly when fraud_detected is false.                  *)
(***************************************************************************)
C1_ScoreRange ==
    Assessed =>
        \A i \in DOMAIN fraud_flags :
            /\ fraud_flags[i].fraud_score >= 0
            /\ fraud_flags[i].fraud_score <= 100
            /\ (fraud_flags[i].fraud_score = 0)
                   <=> (fraud_flags[i].fraud_detected = FALSE)

\* A row on which all six rules fire: weights 125, score 100.
C1_Witness ==
    /\ Assessed
    /\ \E i \in DOMAIN fraud_flags :
          /\ Len(ExpectedLabels(det_df[i])) = 6
          /\ fraud_flags[i].fraud_score = 100
          /\ fraud_flags[i].fraud_detected

(***************************************************************************)
(* C2: rules_triggered of a claim lists exactly the labels of the rules    *)
(* whose trigger predicate is true on the claim's enriched row, in the     *)
(* fixed table order, none missing and none added.                         *)
(***************************************************************************)
C2_ExactLabels ==
    Assessed =>
        \A i \in DOMAIN fraud_flags :
            LabelsOf(fraud_flags[i].rules_triggered) = ExpectedLabels(det_df[i])

\* A row that triggers AMOUNT_ANOMALY, VELOCITY_FRAUD and
\* IMPOSSIBLE_SCENARIO each by its second condition only, and no other rule.
C2_Witness ==
    /\ Assessed
    /\ \E i \in DOMAIN fraud_flags :
          /\ ~ZAbsExceeds(det_df[i].amount_zscore, 3)
          /\ det_df[i].patient_claims_7d < 5
          /\ ~det_df[i].same_day_surgeries
          /\ LabelsOf(fraud_flags[i].rules_triggered) =
                << "AMOUNT_ANOMALY", "VELOCITY_FRAUD", "IMPOSSIBLE_SCENARIO" >>

(***************************************************************************)
(* C3: fraud_score is min(100, sum of the weights of the triggered rules), *)
(* weights 20, 25, 15, 20, 15, 30 in table order, each rule counted once:  *)
(* a claim meeting both the z-score and the high-amount condition gets 25  *)
(* for AMOUNT_ANOMALY.                                                     *)
(***************************************************************************)
C3_ScoreIsCappedSum ==
    Assessed =>
        \A i \in DOMAIN fraud_flags :
            fraud_flags[i].fraud_score =
                Min(100, WeightSum(ExpectedLabels(det_df[i])))

\* A row meeting both conditions of AMOUNT_ANOMALY and no other rule,
\* scored 25.
C3_Witness ==
    /\ Assessed
    /\ \E i \in DOMAIN fraud_flags :
          /\ ZAbsExceeds(det_df[i].amount_zscore, 3)
          /\ det_df[i].is_high_amount
          /\ ExpectedLabels(det_df[i]) = << "AMOUNT_ANOMALY" >>
          /\ fraud_flags[i].fraud_score = 25

(***************************************************************************)
(* C6: after transform every claim carries duplicate_count = the number of *)
(* claims of the population with its claim_id; two claims sharing a        *)
(* claim_id (and no third) both carry duplicate_count 2, and every claim   *)
(* whose claim_id repeats triggers DUPLICATE.                              *)
(***************************************************************************)
SameClaimId(c) == {j \in DOMAIN csv : csv[j].claim_id = c}

C6_DuplicateCount ==
    /\ Transformed =>
          \A i \in DOMAIN df :
              df[i].duplicate_count = Cardinality(SameClaimId(df[i].claim_id))
    /\ Assessed =>
          \A i \in DOMAIN det_df :
              /\ Cardinality(SameClaimId(det_df[i].claim_id)) = 2
                    => det_df[i].duplicate_count = 2
              /\ Cardinality(SameClaimId(det_df[i].claim_id)) >= 2
                    => Triggers(fraud_flags[i], "DUPLICATE")
              /\ Cardinality(SameClaimId(det_df[i].claim_id)) = 1
                    => ~Triggers(fraud_flags[i], "DUPLICATE")

\* Two claims with one claim_id, of different patients, beside a claim with
\* an id of its own: the two flagged, the third not.
C6_Witness ==
    /\ Assessed
    /\ \E i, j, k \in DOMAIN det_df :
          /\ i # j
          /\ det_df[i].claim_id = det_df[j].claim_id
          /\ det_df[i].patient_id # det_df[j].patient_id
          /\ det_df[i].duplicate_count = 2
          /\ det_df[j].duplicate_count = 2
          /\ Triggers(fraud_flags[i], "DUPLICATE")
          /\ Triggers(fraud_flags[j], "DUPLICATE")
          /\ det_df[k].duplicate_count = 1
          /\ ~Triggers(fraud_flags[k], "DUPLICATE")

(***************************************************************************)
(* C7: same_day_claim_count is the number of claims of the population with *)
(* the claim's patient and date, and same_day_surgeries is true exactly    *)
(* when same_day_claim_count > 1 and is_surgery; two claims of one patient *)
(* and day with surgical procedure codes (and no third claim that day) get *)
(* same_day_claim_count 2 and same_day_surgeries true, and both trigger    *)
(* IMPOSSIBLE_SCENARIO, which adds 30 to the score.                        *)
(***************************************************************************)
SameDay(p, date) ==
    {j \in DOMAIN csv : csv[j].patient_id = p /\ csv[j].claim_date = date}

OtherLabels(assessment, label) ==
    SelectSeq(LabelsOf(assessment.rules_triggered), LAMBDA l : l # label)

C7_SameDaySurgeries ==
    /\ Transformed =>
          \A i \in DOMAIN df :
              /\ df[i].same_day_claim_count =
                    Cardinality(SameDay(df[i].patient_id, df[i].claim_date))
              /\ df[i].same_day_surgeries
                    <=> (df[i].same_day_claim_count > 1 /\ df[i].is_surgery)
              /\ df[i].is_surgery <=> df[i].procedure_code \in surgery_codes
    /\ Assessed =>
          \A i, j \in DOMAIN det_df :
              ( /\ i # j
                /\ det_df[i].patient_id = det_df[j].patient_id
                /\ det_df[i].claim_date = det_df[j].claim_date
                /\ det_df[i].procedure_code \in surgery_codes
                /\ det_df[j].procedure_code \in surgery_codes )
              => /\ det_df[i].same_day_surgeries
                 /\ Cardinality(SameDay(det_df[i].patient_id,
                                        det_df[i].claim_date)) = 2
                       => det_df[i].same_day_claim_count = 2
                 /\ Triggers(fraud_flags[i], "IMPOSSIBLE_SCENARIO")
                 /\ fraud_flags[i].fraud_score =
                       Min(100, 30 + WeightSum(OtherLabels(fraud_flags[i],
                                                  "IMPOSSIBLE_SCENARIO")))

\* Two surgical claims of one patient on one day, both flagged and scored
\* 30, beside a surgical claim of another patient that is not flagged.
C7_Witness ==
    /\ Assessed
    /\ \E i, j, k \in DOMAIN det_df :
          /\ i # j
          /\ det_df[i].patient_id = det_df[j].patient_id
          /\ det_df[i].claim_date = det_df[j].claim_date
          /\ det_df[i].procedure_code # det_df[j].procedure_code
          /\ det_df[i].same_day_claim_count = 2
          /\ det_df[i].same_day_surgeries /\ det_df[j].same_day_surgeries
          /\ fraud_flags[i].fraud_score = 30
          /\ fraud_flags[j].fraud_score = 30
          /\ det_df[k].is_surgery
          /\ ~det_df[k].same_day_surgeries
          /\ ~Triggers(fraud_flags[k], "IMPOSSIBLE_SCENARIO")

(***************************************************************************)
(* C8: a claim is flagged is_code_mismatch exactly when its derived        *)
(* diagnosis prefix is a key of the family table and its derived procedure *)
(* prefix is not in that key's accepted set; a diagnosis_code without an   *)
(* underscore, like every diagnosis prefix outside the table, is never     *)
(* flagged, whatever the procedure code, and transform completes.          *)
(***************************************************************************)
Digits == {"0", "1", "2", "3", "4", "5", "6", "7", "8", "9"}

BeforeFirstDigit(s) ==
    LET at == {k \in DOMAIN s : s[k] \in Digits}
    IN IF at = {} THEN s
       ELSE SubSeq(s, 1, (CHOOSE k \in at : \A m \in at : k <= m) - 1)

FirstTwoTokens(s) ==
    LET at == {k \in DOMAIN s : s[k] = "_"}
    IN IF Cardinality(at) < 2 THEN s
       ELSE SubSeq(s, 1,
               (CHOOSE k \in at : Cardinality({m \in at : m < k}) = 1) - 1)

HasAtom(s, a) == \E k \in DOMAIN s : s[k] = a

C8_MismatchIffKnownFamily ==
    /\ pc # "failed"
    /\ Transformed =>
          \A i \in DOMAIN df :
              /\ df[i].is_code_mismatch
                    <=> /\ diag_prefix(df[i].diagnosis_code) \in DOMAIN valid_combos
                        /\ proc_prefix(df[i].procedure_code)
                              \notin valid_combos[diag_prefix(df[i].diagnosis_code)]
              /\ ~HasAtom(df[i].diagnosis_code, "_") => ~df[i].is_code_mismatch
              /\ df[i].is_code_mismatch
                    => FirstTwoTokens(df[i].diagnosis_code) \in DOMAIN valid_combos

\* The diagnosis code D_HEART with the procedure code SURG001, flagged.
C8_Witness ==
    /\ pc = "transformed"
    /\ \E i \in DOMAIN df :
          /\ df[i].diagnosis_code = D("HEART")
          /\ df[i].procedure_code = Code("SURG", D001)
          /\ df[i].is_code_mismatch

(***************************************************************************)
(* C9 as stated: the procedure prefix used by _detect_code_mismatches is   *)
(* the portion of procedure_code before its first digit, whichever digit   *)
(* that is, and the diagnosis prefix is the first two underscore-delimited *)
(* tokens of diagnosis_code joined by an underscore.  Violated: the code   *)
(* cuts the procedure code at its first '0', so CARD1 keeps its digit.     *)
(***************************************************************************)
C9_PrefixBeforeFirstDigit ==
    Transformed =>
        \A i \in DOMAIN df :
            /\ proc_prefix(df[i].procedure_code)
                  = BeforeFirstDigit(df[i].procedure_code)
            /\ diag_prefix(df[i].diagnosis_code)
                  = FirstTwoTokens(df[i].diagnosis_code)

(***************************************************************************)
(* C10: after transform the amount_zscore of a claim is 0 whenever the     *)
(* standard deviation of its specialty is undefined (a specialty of one    *)
(* claim) or zero (all its amounts equal), and no amount_zscore is NaN.    *)
(***************************************************************************)
SameSpecialty(s) == {j \in DOMAIN csv : csv[j].provider_specialty = s}

RowsWithClaimId(table, c) == {j \in DOMAIN table : table[j].claim_id = c}

C11_OneRowPerEnrichedRow ==
    Assessed =>
        /\ Len(fraud_flags) = Len(claims_table)
        /\ \A i \in DOMAIN claims_table :
              /\ fraud_flags[i].claim_id = claims_table[i].claim_id
              /\ Cardinality(RowsWithClaimId(fraud_flags, claims_table[i].claim_id))
                    = Cardinality(SameClaimId(claims_table[i].claim_id))

\* Three enriched rows, the first and the last with one claim_id, and three
\* assessment rows with the same claim_ids in the same places.
C11_Witness ==
    /\ Assessed
    /\ Len(claims_table) = 3
    /\ claims_table[1].claim_id = claims_table[3].claim_id
    /\ claims_table[1].claim_id # claims_table[2].claim_id
    /\ Len(fraud_flags) = 3
    /\ fraud_flags[1].claim_id = fraud_flags[3].claim_id
    /\ fraud_flags[2].claim_id = claims_table[2].claim_id

(***************************************************************************)
(* C12: transform never drops, merges or multiplies claims: the enriched   *)
(* set has as many rows as the raw claim set, claims with a repeated       *)
(* claim_id are all kept, and the raw attributes of every claim (claim_id, *)
(* patient_id, provider_id, provider_specialty, procedure_code,            *)
(* diagnosis_code, claim_amount, status) are unchanged.                    *)
(***************************************************************************)
RawAttributes(row) ==
    [claim_id |-> row.claim_id, patient_id |-> row.patient_id,
     provider_id |-> row.provider_id,
     provider_specialty |-> row.provider_specialty,
     procedure_code |-> row.procedure_code,
     diagnosis_code |-> row.diagnosis_code,
     claim_amount |-> row.claim_amount, status |-> row.status]

RowsLike(table, raw) == {j \in DOMAIN table : RawAttributes(table[j]) = raw}

C12_TransformKeepsEveryClaim ==
    Transformed =>
        /\ Len(df) = Len(csv)
        /\ \A i \in DOMAIN csv :
              Cardinality(RowsLike(df, RawAttributes(csv[i])))
                  = Cardinality(RowsLike(csv, RawAttributes(csv[i])))
        /\ \A i \in DOMAIN df :
              Cardinality(RowsWithClaimId(df, df[i].claim_id))
                  = Cardinality(SameClaimId(df[i].claim_id))

\* A raw set of four claims, three of them with one claim_id and two of
\* those alike in every raw attribute, given out of patient order: four
\* enriched rows, the three kept.
C12_Witness ==
    /\ pc = "transformed"
    /\ Len(csv) = 4
    /\ Len(df) = 4
    /\ csv[1].patient_id > csv[2].patient_id
    /\ \E i, j, k \in DOMAIN csv :
          /\ i # j /\ j # k /\ i # k
          /\ RawAttributes(csv[i]) = RawAttributes(csv[j])
          /\ csv[k].claim_id = csv[i].claim_id
          /\ csv[k].patient_id # csv[i].patient_id
          /\ Cardinality(RowsWithClaimId(df, csv[i].claim_id)) = 3

(***************************************************************************)
(* C13: after any sequence of run_all_rules executions on one database,    *)
(* the fraud_flags table holds exactly the assessment rows of the most     *)
(* recent execution: no row of an earlier run survives and rows are never  *)
(* appended to earlier ones.                                               *)
(***************************************************************************)
C13_FlagsAreLatestRun ==
    pc = "done" =>
        /\ flags_exists
        /\ fraud_flags = results_df
        /\ Len(fraud_flags) = Len(det_df)
        /\ \A i \in DOMAIN det_df :
              fraud_flags[i].claim_id = det_df[i].claim_id

\* Two executions completed; a reader found a claim's row in the table of
\* the first, and the table of the second holds no row of that claim.
C13_Witness ==
    /\ pc = "done"
    /\ runs = 2
    /\ observed.result = "found"
    /\ observed.runs = 1
    /\ where_claim_id(fraud_flags, observed.claim_id) = <<>>
    /\ fraud_flags # <<>>

(***************************************************************************)
(* C14 as stated: a reader of fraud_flags that runs concurrently with      *)
(* _save_results (investigate_single_claim) sees the complete table of the *)
(* previous run or the complete table of the new run, never a missing, an  *)
(* empty or a partly written table: once a run has completed, every claim  *)
(* of the claims table is found with all its assessment rows.  Violated:   *)
(* DROP TABLE and CREATE TABLE are committed on their own before the rows  *)
(* are inserted.                                                           *)
(***************************************************************************)
C14_ReaderSeesCompleteTable ==
    (observed.read /\ observed.runs >= 1
        /\ observed.result # "Claim not found")
    => /\ observed.result = "found"
       /\ Len(observed.fraud_flag) =
             Cardinality(RowsWithClaimId(claims_table, observed.claim_id))

(***************************************************************************)
(* C16 as stated: given an empty claim population, transform completes     *)
(* without error and produces an empty enriched set.  Violated: the        *)
(* windowed count of line 57 raises ValueError over a frame without rows.  *)
(***************************************************************************)
C16_EmptyPopulationTolerated ==
    (csv = <<>> /\ pc \notin {"start", "extracted"})
    => /\ pc # "failed"
       /\ raised = "none"
       /\ df = <<>>

(***************************************************************************)
(* C17: in _print_summary, with TP, FP and FN counted against the          *)
(* actual_fraud label, precision = TP/(TP+FP), recall = TP/(TP+FN) and     *)
(* F1 = 2*precision*recall/(precision+recall), which is 2TP/(2TP+FP+FN),   *)
(* and each of the three is 0, no error raised, when its denominator is 0. *)
(***************************************************************************)
TP == Cardinality({i \in DOMAIN results_df :
                      results_df[i].fraud_detected /\ det_df[i].is_fraud})

FP == Cardinality({i \in DOMAIN results_df :
                      results_df[i].fraud_detected /\ ~det_df[i].is_fraud})

FN == Cardinality({i \in DOMAIN results_df :
                      ~results_df[i].fraud_detected /\ det_df[i].is_fraud})

\* The fraction m is the number n/d
IsQuotient(m, n, d) == m.den > 0 /\ m.num * d = n * m.den

C17_Metrics ==
    summary.printed =>
        /\ raised = "none"
        /\ summary.tp = TP /\ summary.fp = FP /\ summary.fn = FN
        /\ IF TP + FP = 0 THEN IsQuotient(summary.precision, 0, 1)
           ELSE IsQuotient(summary.precision, TP, TP + FP)
        /\ IF TP + FN = 0 THEN IsQuotient(summary.recall, 0, 1)
           ELSE IsQuotient(summary.recall, TP, TP + FN)
        /\ IF TP = 0 THEN IsQuotient(summary.f1_score, 0, 1)
           ELSE /\ IsQuotient(summary.f1_score, 2 * TP, 2 * TP + FP + FN)
                /\ summary.f1_score =
                      FracDiv(FracMul([num |-> 2, den |-> 1],
                                      FracMul(summary.precision, summary.recall)),
                              FracAdd(summary.precision, summary.recall))

\* A table with a missed fraud and nothing detected: TP + FP = 0 and
\* precision + recall = 0 while TP + FN = 1; the three metrics are 0.
C17_Witness ==
    /\ summary.printed
    /\ TP + FP = 0
    /\ FN = 1
    /\ Len(results_df) = 3
    /\ summary.precision = FracZero
    /\ summary.recall.num = 0
    /\ summary.f1_score = FracZero

(***************************************************************************)
(* C18: the explanation of a claim is the concatenation, in the fixed rule *)
(* order and joined by ' | ', of exactly one non-empty explanation for     *)
(* each triggered rule; it is the text 'No fraud detected' if and only if  *)
(* no rule triggered.                                                      *)
(***************************************************************************)
\* The texts an explanation of the rule begins and ends with
ExplanationEnds ==
    [l \in {"DUPLICATE"} |-> {<<"Duplicate claim: ", " times">>}] @@
    [l \in {"AMOUNT_ANOMALY"} |->
        {<<"Amount $", "s from specialty average">>,
         <<"Abnormally high amount: $", "">>}] @@
    [l \in {"CODE_MISMATCH"} |-> {<<"Procedure ", "">>}] @@
    [l \in {"VELOCITY_FRAUD"} |->
        {<<"Patient has ", " claims in past 7 days">>,
         <<"Patient has ", " claims in past 30 days">>}] @@
    [l \in {"PROVIDER_OUTLIER"} |-> {<<"Provider bills $", " specialty avg)">>}] @@
    [l \in {"IMPOSSIBLE_SCENARIO"} |->
        {<<"Patient has ", " surgeries on same day">>,
         <<"Patient has ", " surgical claims in 7 days">>}]

ExplainsRule(part, label) ==
    /\ Len(part) >= 2
    /\ \E ends \in ExplanationEnds[label] :
          /\ Head(part) = ends[1]
          /\ ends[2] # "" => Last(part) = ends[2]

C18_ExplanationPerTriggeredRule ==
    Assessed =>
        \A i \in DOMAIN fraud_flags :
            LET labels == ExpectedLabels(det_df[i])
                text == fraud_flags[i].explanation
                parts == split(text, " | ")
            IN /\ (text = <<"No fraud detected">>) <=> (labels = <<>>)
               /\ labels # <<>> =>
                     /\ Len(parts) = Len(labels)
                     /\ \A k \in DOMAIN parts : ExplainsRule(parts[k], labels[k])

\* A claim that triggers DUPLICATE, VELOCITY_FRAUD by its 30-day count and
\* IMPOSSIBLE_SCENARIO by its surgical velocity: three explanations, in
\* that order, between two separators.
C18_Witness ==
    /\ Assessed
    /\ \E i \in DOMAIN fraud_flags :
          LET parts == split(fraud_flags[i].explanation, " | ")
          IN /\ ExpectedLabels(det_df[i]) =
                   << "DUPLICATE", "VELOCITY_FRAUD", "IMPOSSIBLE_SCENARIO" >>
             /\ Len(parts) = 3
             /\ Head(parts[1]) = "Duplicate claim: "
             /\ Last(parts[2]) = " claims in past 30 days"
             /\ Last(parts[3]) = " surgical claims in 7 days"

(***************************************************************************)
(* What main printed.                                                      *)
(***************************************************************************)
Printed(line) == \E k \in DOMAIN out : out[k] = line

ErrorLines ==
    { "Error in data generation", "Error in ETL pipeline",
      "Error in fraud detection", "Error in embeddings generation" }

StageHeaders == << "STEP 1", "STEP 2", "STEP 3", "STEP 4" >>

HeadersPrinted ==
    SelectSeq(out, LAMBDA line : \E k \in DOMAIN StageHeaders :
                                      StageHeaders[k] = line)

(***************************************************************************)
(* C19: a persistence error while loading the claims or saving the claims  *)
(* or the fraud_flags table is fatal to the run and reaches the caller as  *)
(* an error: load, load_data and _save_results do not swallow it, and the  *)
(* run reports no success after it (not the function's own line, not the   *)
(* stage's line of main, not the closing summary).                         *)
(***************************************************************************)
SuccessLinesAfter ==
    [f \in {"load"} |->
        { "Saved 'claims' table", "Saved 'providers' table",
          "Saved 'patients' table", "Successfully completed ETL pipeline!",
          "STEP 3", "Loaded claims from database" }] @@
    [f \in {"load_data"} |-> { "Loaded claims from database" }] @@
    [f \in {"load", "load_data", "_save_results"} |->
        { "Saved fraud flags to database",
          "Successfully completed fraud detection!", "STEP 4",
          "Successfully generated embeddings!", "DATA PIPELINE COMPLETE!" }]

C19_PersistenceErrorSurfaces ==
    store_error # "none" =>
        /\ raised = "OperationalError"
        /\ pc \in {"failed", "main"}
        /\ \A line \in SuccessLinesAfter[store_error]
                          \cup SuccessLinesAfter["_save_results"] :
              ~Printed(line)
        /\ pc = "main" =>
              /\ stage = "returned"
              /\ Last(out) = IF store_error = "load"
                             THEN "Error in ETL pipeline"
                             ELSE "Error in fraud detection"

\* The database became unavailable in _save_results after the table was
\* created: the table is left without rows, main printed the error of
\* stage 3 and returned.
C19_Witness ==
    /\ store_error = "_save_results"
    /\ flags_exists
    /\ fraud_flags = <<>>
    /\ results_df # <<>>
    /\ stage = "returned"
    /\ Last(out) = "Error in fraud detection"

(***************************************************************************)
(* C20: in every execution of main, fraud rule evaluation never starts     *)
(* before the ETL stage (extract, transform, load over the whole           *)
(* population) has completed without error, and a stage that fails         *)
(* prevents every later stage from running.                                *)
(***************************************************************************)
C20_StagesInOrder ==
    /\ \E n \in 0..Len(StageHeaders) :
          HeadersPrinted = SubSeq(StageHeaders, 1, n)
    /\ (Printed("STEP 3") \/ pc \in {"detecting", "saving", "created", "done"})
       => /\ Printed("Successfully completed ETL pipeline!")
          /\ ~Printed("Error in ETL pipeline")
          /\ csv # <<>>
          /\ Len(claims_table) = Len(csv)
          /\ claims_table = df
          /\ \A i \in DOMAIN csv :
                Cardinality(RowsLike(claims_table, RawAttributes(csv[i])))
                    = Cardinality(RowsLike(csv, RawAttributes(csv[i])))
    /\ \A k \in DOMAIN out :
          out[k] \in ErrorLines => (k = Len(out) /\ stage = "returned")

\* transform raised in stage 2: main printed the error of the ETL stage and
\* returned, the rules and the embeddings never started.
C20_Witness ==
    /\ stage = "returned"
    /\ raised = "ValueError"
    /\ Len(csv) = 2
    /\ out = << "STEP 1", "Successfully generated claims data!", "STEP 2",
                "Error in ETL pipeline" >>
    /\ claims_table = <<>>
    /\ providers_table = <<>>
    /\ ~flags_exists

(***************************************************************************)
(* C21 as stated: when no stage's underlying operation fails, main         *)
(* executes data generation, the ETL pipeline, the six fraud detection     *)
(* rules and embedding generation, in that order, and then reaches the     *)
(* closing 'DATA PIPELINE COMPLETE' summary.  Violated: the import of      *)
(* stage 1 names a class data.generator does not define, main prints the   *)
(* error of stage 1 and returns with no operation of any stage begun.      *)
(***************************************************************************)
\* The exceptions of the operations the stages run: transform, the rules'
\* summary, the database, the generator and the embeddings
OperationFailures == {"ValueError", "KeyError", "OperationalError", "Exception"}

C21_CompletesWhenNothingFails ==
    (stage = "returned" /\ raised \notin OperationFailures)
    => /\ HeadersPrinted = StageHeaders
       /\ Printed("Successfully generated claims data!")
       /\ Printed("Successfully completed ETL pipeline!")
       /\ Printed("Successfully completed fraud detection!")
       /\ Printed("Successfully generated embeddings!")
       /\ Last(out) = "DATA PIPELINE COMPLETE!"

(***************************************************************************)
(* C22: after transform, is_provider_outlier of a claim is true if and     *)
(* only if the mean claim amount over all claims of the claim's provider   *)
(* exceeds 2 times the mean claim amount over all claims of the claim's    *)
(* provider_specialty, and run_all_rules triggers PROVIDER_OUTLIER exactly *)
(* on those claims.                                                        *)
(***************************************************************************)
SameProvider(v) == {j \in DOMAIN csv : csv[j].provider_id = v}

RawAmountSum(S) == SumOver(S, [j \in DOMAIN csv |-> csv[j].claim_amount])

\* mean over P > 2 * mean over S, for sets of raw claims that are not empty
MeanExceedsTwice(P, S) ==
    RawAmountSum(P) * Cardinality(S) > 2 * RawAmountSum(S) * Cardinality(P)

BillsTwiceSpecialty(row) ==
    MeanExceedsTwice(SameProvider(row.provider_id),
                     SameSpecialty(row.provider_specialty))

C22_ProviderOutlier ==
    /\ Transformed =>
          \A i \in DOMAIN df :
              df[i].is_provider_outlier <=> BillsTwiceSpecialty(df[i])
    /\ Assessed =>
          \A i \in DOMAIN det_df :
              Triggers(fraud_flags[i], "PROVIDER_OUTLIER")
                  <=> BillsTwiceSpecialty(det_df[i])

\* A provider with claims in two specialties, flagged on its claim in the
\* one and not on its claim in the other; and two claims of one specialty
\* and one amount, of two providers, the one flagged and the other not.
C22_Witness ==
    /\ Assessed
    /\ \E i, j \in DOMAIN det_df :
          /\ det_df[i].provider_id = det_df[j].provider_id
          /\ det_df[i].provider_specialty # det_df[j].provider_specialty
          /\ Triggers(fraud_flags[i], "PROVIDER_OUTLIER")
          /\ ~Triggers(fraud_flags[j], "PROVIDER_OUTLIER")
    /\ \E i, k \in DOMAIN det_df :
          /\ det_df[i].provider_id # det_df[k].provider_id
          /\ det_df[i].provider_specialty = det_df[k].provider_specialty
          /\ det_df[i].claim_amount = det_df[k].claim_amount
          /\ Triggers(fraud_flags[i], "PROVIDER_OUTLIER")
          /\ ~Triggers(fraud_flags[k], "PROVIDER_OUTLIER")

(***************************************************************************)
(* C23: rule evaluation of a claim depends only on that claim's own        *)
(* enriched row: two runs of run_all_rules over enriched sets that contain *)
(* the same row, in any position and alongside any other rows, give that   *)
(* row the same fraud_detected, fraud_score, rules_triggered and           *)
(* explanation, and no state is carried from one claim's evaluation to the *)
(* next.                                                                   *)
(***************************************************************************)
Verdict(assessment) ==
    [fraud_detected |-> assessment.fraud_detected,
     fraud_score |-> assessment.fraud_score,
     rules_triggered |-> assessment.rules_triggered,
     explanation |-> assessment.explanation]

C23_RowEvaluatedAlone ==
    Assessed =>
        \A i \in DOMAIN det_df :
            /\ \A j \in DOMAIN det_df :
                  det_df[j] = det_df[i]
                      => Verdict(fraud_flags[j]) = Verdict(fraud_flags[i])
            /\ \A other \in SeqsUpTo(SummaryRows, MaxSummaryRows) :
                  \A k \in DOMAIN other :
                      other[k] = det_df[i]
                          => Verdict(run_rules(other)[k]) = Verdict(fraud_flags[i])

\* A row no rule fires on, first and last of a table of three with a
\* flagged row between them: both its assessments are clean.
C23_Witness ==
    /\ Assessed
    /\ Len(det_df) = 3
    /\ det_df[1] = det_df[3]
    /\ det_df[2] # det_df[1]
    /\ fraud_flags[2].fraud_detected
    /\ fraud_flags[2].fraud_score = 25
    /\ ~fraud_flags[1].fraud_detected
    /\ ~fraud_flags[3].fraud_detected
    /\ fraud_flags[3].fraud_score = 0
    /\ fraud_flags[3].rules_triggered = <<"NONE">>

(***************************************************************************)
(* C24: run_all_rules leaves the claim snapshot unchanged: it modifies     *)
(* neither the in-memory enriched claim set nor the claims, providers and  *)
(* patients tables, and writes only the fraud_flags table.                 *)
(***************************************************************************)
\* Control is inside run_all_rules (its loop, its summary, _save_results)
InRunAllRules == pc \in {"detecting", "saving", "created"}

C24_SnapshotUnchanged ==
    [][InRunAllRules =>
          /\ det_df' = det_df
          /\ claims_table' = claims_table
          /\ providers_table' = providers_table
          /\ patients_table' = patients_table]_vars

\* A run completed over three claims of two patients, two of them flagged
\* as duplicates: the frame is the claims table as load wrote it, beside
\* the two summaries, and fraud_flags holds the three verdicts.
C24_Witness ==
    /\ pc = "done"
    /\ Len(det_df) = 3
    /\ det_df = claims_table
    /\ claims_table = df
    /\ Len(providers_table) = 1
    /\ providers_table[1].total_claims = 3
    /\ Len(patients_table) = 2
    /\ patients_table[1].total_claims = 2
    /\ Len(fraud_flags) = 3
    /\ \E i, j \in DOMAIN det_df :
          /\ fraud_flags[i].fraud_detected
          /\ ~det_df[i].is_fraud
          /\ ~fraud_flags[j].fraud_detected

(***************************************************************************)
(* C25 as stated: for every claim whose diagnosis code is one the data     *)
(* generator emits (a known family name followed by a two-digit suffix,    *)
(* such as D_HEART01) and whose procedure prefix is not in that family's   *)
(* accepted set (such as SURG001), transform sets is_code_mismatch to true *)
(* and run_all_rules triggers CODE_MISMATCH.  Violated: the derived        *)
(* diagnosis prefix keeps the suffix (D_HEART01), is no key of the family  *)
(* table, and the claim is not flagged.                                    *)
(***************************************************************************)
\* code is the name of the family followed by two digits
EmittedFor(code, family) ==
    /\ Len(code) = Len(family) + 2
    /\ SubSeq(code, 1, Len(family)) = family
    /\ code[Len(family) + 1] \in Digits
    /\ code[Len(family) + 2] \in Digits

MismatchedAsEmitted(row) ==
    \E family \in DOMAIN valid_combos :
        /\ EmittedFor(row.diagnosis_code, family)
        /\ BeforeFirstDigit(row.procedure_code) \notin valid_combos[family]

C25_EmittedCodesFlagged ==
    /\ Transformed =>
          \A i \in DOMAIN df :
              MismatchedAsEmitted(df[i]) => df[i].is_code_mismatch
    /\ Assessed =>
          \A i \in DOMAIN det_df :
              MismatchedAsEmitted(det_df[i])
                  => Triggers(fraud_flags[i], "CODE_MISMATCH")

(***************************************************************************)
(* C26: after transform, every claim satisfies                             *)
(* 1 <= same_day_claim_count <= patient_claims_7d <= patient_claims_30d,   *)
(* and all claims sharing the same (patient_id, claim_date) pair carry the *)
(* same same_day_claim_count, patient_claims_7d and patient_claims_30d.    *)
(***************************************************************************)
C26_CountsOrdered ==
    Transformed =>
        \A i \in DOMAIN df :
            /\ 1 <= df[i].same_day_claim_count
            /\ df[i].same_day_claim_count <= df[i].patient_claims_7d
            /\ df[i].patient_claims_7d <= df[i].patient_claims_30d
            /\ \A j \in DOMAIN df :
                  ( /\ df[j].patient_id = df[i].patient_id
                    /\ df[j].claim_date = df[i].claim_date )
                  => /\ df[j].same_day_claim_count = df[i].same_day_claim_count
                     /\ df[j].patient_claims_7d = df[i].patient_claims_7d
                     /\ df[j].patient_claims_30d = df[i].patient_claims_30d

\* Two claims of one patient on one day, a third of the patient 7 days and
\* a fourth 30 days before: both carry the counts 2, 3 and 4.
C26_Witness ==
    /\ pc = "transformed"
    /\ \E i, j \in DOMAIN df :
          /\ i # j
          /\ df[i].patient_id = df[j].patient_id
          /\ df[i].claim_date = df[j].claim_date
          /\ df[i].same_day_claim_count = 2
          /\ df[i].patient_claims_7d = 3
          /\ df[i].patient_claims_30d = 4
          /\ df[j].same_day_claim_count = 2
          /\ df[j].patient_claims_7d = 3
          /\ df[j].patient_claims_30d = 4

(***************************************************************************)
(* C27 as stated: whenever IMPOSSIBLE_SCENARIO triggers through the        *)
(* same-day-surgery branch, the patient has at least two surgery claims on *)
(* that claim_date, and the number N in the explanation 'Patient has N     *)
(* surgeries on same day' equals the number of that patient's surgery      *)
(* claims on that date.  Violated: same_day_claim_count counts every claim *)
(* of the patient on the date, surgical or not, so one surgery beside an   *)
(* office visit is reported as 2 surgeries.                                *)
(***************************************************************************)
SameDaySurgeryClaims(p, date) ==
    {j \in SameDay(p, date) : csv[j].procedure_code \in surgery_codes}

\* The explanation of IMPOSSIBLE_SCENARIO, the last rule of the table
LastExplanation(assessment) == Last(split(assessment.explanation, " | "))

C27_SurgeriesCounted ==
    Assessed =>
        \A i \in DOMAIN det_df :
            ( /\ Triggers(fraud_flags[i], "IMPOSSIBLE_SCENARIO")
              /\ Last(LastExplanation(fraud_flags[i])) = " surgeries on same day" )
            => LET n == Cardinality(SameDaySurgeryClaims(det_df[i].patient_id,
                                                         det_df[i].claim_date))
               IN /\ n >= 2
                  /\ LastExplanation(fraud_flags[i]) =
                        << "Patient has ", ToString(n), " surgeries on same day" >>

(***************************************************************************)
(* C28 as stated: create_fraud_documents produces exactly one document and *)
(* one metadata entry per row of the claims table, each paired with that   *)
(* claim instance's own assessment, including when a claim_id occurs more  *)
(* than once in claims and fraud_flags.  Violated: the LEFT JOIN on        *)
(* claim_id pairs every claims row with every fraud_flags row of its       *)
(* claim_id, so a claim_id that occurs twice yields four documents.        *)
(***************************************************************************)
C28_OneDocumentPerClaim ==
    pc = "embedded" =>
        /\ Len(documents) = Len(claims_table)
        /\ Len(metadata) = Len(claims_table)
        /\ \A i \in DOMAIN claims_table :
              /\ metadata[i].claim_id = claims_table[i].claim_id
              /\ metadata[i].fraud_detected = fraud_flags[i].fraud_detected
              /\ metadata[i].fraud_score = fraud_flags[i].fraud_score

(***************************************************************************)
(* C29 as stated: for a fraud-flagged claim, the rules_triggered list      *)
(* returned by investigate_single_claim is exactly the sequence of rule    *)
(* labels that run_all_rules recorded for that claim: every element is one *)
(* of the six rule labels with no added characters, in the same order.     *)
(* Violated: the labels are joined by ', ' and split at ',', so every      *)
(* label after the first begins with a blank.                              *)
(***************************************************************************)
C29_ReturnedLabels ==
    (observed.result = "found" /\ observed.fraud_detected) =>
        LET labels == ExpectedLabels(claims_table[1])
        IN /\ Len(observed.rules_triggered) = Len(labels)
           /\ \A k \in DOMAIN observed.rules_triggered :
                 /\ observed.rules_triggered[k] = <<labels[k]>>
                 /\ \E n \in DOMAIN RuleOrder :
                       observed.rules_triggered[k] = <<RuleOrder[n]>>

(***************************************************************************)
(* C30 as stated: search(query, k, fraud_only=True) returns exactly        *)
(* min(k, number of fraud-detected documents in the store) results, every  *)
(* one of them with fraud_detected true in its metadata, in nondecreasing  *)
(* distance order.  Violated: when the store holds fewer than 5k documents *)
(* faiss fills the candidates up with the label -1, which Python reads as  *)
(* the last document of the store, so a flagged last document is returned  *)
(* once more for every missing candidate.                                  *)
(***************************************************************************)
FraudDocuments == {j \in DOMAIN metadata : metadata[j].fraud_detected}

C30_FraudOnlySearch ==
    (search_results.searched /\ search_results.fraud_only) =>
        LET results == search_results.results
        IN /\ Len(results) = Min(search_results.k, Cardinality(FraudDocuments))
           /\ \A r \in DOMAIN results : results[r].metadata.fraud_detected
           /\ \A r \in DOMAIN results :
                 r > 1 => results[r - 1].distance <= results[r].distance

====
